---- MODULE Spec2Model ----
(***************************************************************************)
(* The EKS sandbox tool: the "Delete Cluster" run of main (src/main.go)    *)
(* and the teardown functions it calls (CheckClusterTag,                   *)
(* GetVPCIDFromCluster, DeleteEKSCluster, DeleteVPC), and the "Create      *)
(* Cluster" run of main with the creation functions it calls.  The         *)
(* repository also holds an earlier revision of main that asks whether to  *)
(* reuse existing network resources; its create run and its delete run     *)
(* (DeleteVPC before DeleteEKSCluster, and DeleteEKSCluster on every path  *)
(* that is not declined) are modelled next to the current ones (variable   *)
(* `revision`).                                                            *)
(*                                                                         *)
(* The program is sequential.  Every action below is one step of the run:  *)
(* one operator prompt or one Cloud Gateway call together with the code    *)
(* that handles its result.  The cluster and its tags are remote state     *)
(* fixed at the start of the run; what the EC2 describe calls return is an *)
(* input of the step that issues the call.  Every gateway call is appended *)
(* to the trace `calls`.                                                   *)
(***************************************************************************)
EXTENDS Integers, Sequences, FiniteSets, TLC

VARIABLES
    remoteClusters,   \* EKS: cluster name -> tag map (remote state)
    pc,               \* position of the run
    region,           \* main: region
    clusters,         \* main: result of ListEKSClusters
    selectedCluster,  \* main: selectedCluster
    isCreatedByTool,  \* main: isCreatedByTool
    confirmDelete,    \* main: confirmDelete (danger prompt)
    isIsolatedVpc,    \* main: isIsolatedVpc
    vpcId,            \* main: vpcId, DeleteVPC: vpcID
    confirmDeleteVPC, \* main: confirmDeleteVPC (cascade prompt)
    eniOutput,        \* DeleteVPC: eniOutput.NetworkInterfaces
    igws,             \* DeleteVPC: igws
    subnets,          \* DeleteVPC: subnets
    routeTables,      \* DeleteVPC: routeTables
    securityGroups,   \* DeleteVPC: securityGroups
    idx,              \* DeleteVPC: position of the current range loop
    rtbOutput,        \* DeleteVPC: rtbOutput.RouteTables of the current route table
    sgOutput,         \* DeleteVPC: sgOutput.SecurityGroups of the current group
    calls,            \* trace of the Cloud Gateway calls issued so far
    err,              \* the error returned by the failing function
    fatal             \* the log.Fatalf prefix main stopped with

VARIABLES
    revision,             \* which main runs: "main.go" or the earlier "reuse" one
    action,               \* main: action
    clusterName,          \* main: clusterName
    latestVersion,        \* main: latestVersion
    k8sVersion,           \* main: k8sVersion
    autoMode,             \* main: autoMode
    useExistingResources, \* earlier main: useExistingResources
    createAddons,         \* main: createAddons
    accountID,            \* main: accountID
    vpcID,                \* main: vpcID
    subnet1,              \* main: subnet1
    subnet2,              \* main: subnet2
    subnetIDs,            \* main: subnets (CreateEKSCluster: subnetIDs)
    securityGroupIDs,     \* main: securityGroups (CreateEKSCluster: securityGroupIDs)
    selectedSubnets,      \* earlier main: selectedSubnets
    igwID,                \* main: igwID
    routeTableID,         \* main: routeTableID
    clusterInput,         \* CreateEKSCluster: clusterInput
    cidx,                 \* position of the current range loop of the create run
    resources,            \* EC2: id -> resource made by the run (remote state)
    subnetAz              \* EC2: subnet id -> availability zone (remote state)

VARIABLES
    versions,             \* getLatestVersion: versions (the slice it sorts)
    runLog,               \* the successful create runs so far, oldest first
    entered               \* what the operator typed at the yes/no prompts

VARIABLES
    controlPlane          \* EKS: the clusters whose deletion was initiated and
                          \* is not complete, and the network interfaces their
                          \* control planes have in their VPCs (remote state)

mainVars == <<region, clusters, selectedCluster, isCreatedByTool, confirmDelete,
              isIsolatedVpc, vpcId, confirmDeleteVPC>>
vpcVars == <<eniOutput, igws, subnets, routeTables, securityGroups, idx,
             rtbOutput, sgOutput>>
answers == <<clusterName, latestVersion, k8sVersion, autoMode,
             useExistingResources, createAddons>>
netIds == <<vpcID, subnet1, subnet2, subnetIDs, securityGroupIDs,
            selectedSubnets, igwID, routeTableID>>
createLocals == <<revision, action, answers, accountID, netIds, clusterInput,
                  cidx>>
createVars == <<revision, action, answers, accountID, netIds, clusterInput,
                cidx, resources, subnetAz>>
histVars == <<versions, runLog, entered>>
vars == <<remoteClusters, pc, mainVars, vpcVars, createVars, histVars,
          controlPlane, calls, err, fatal>>

(***************************************************************************)
(* Bounds of the model: the longest list a describe call returns.          *)
(***************************************************************************)
MaxEni == 2
MaxIgw == 1
MaxSubnet == 2
MaxRtb == 2
MaxSg == 2
MaxVpc == 1
\* the longest list of versions getLatestVersion is applied to
MaxVersions == 3
\* the most interfaces the control plane of a cluster has in its VPC at a time
MaxCpEni == 1

(***************************************************************************)
(* Input domains.                                                          *)
(***************************************************************************)
Revisions == {"main.go", "reuse"}
Actions == {"Create Cluster", "Delete Cluster"}
Regions == {"eu-west-2"}
NameInputs == {"demo", "other"}

\* version strings as sequences of byte values: "1.28", "1.9", "1.10", "1.27"
V128 == <<49, 46, 50, 56>>
V19 == <<49, 46, 57>>
V110 == <<49, 46, 49, 48>>
V127 == <<49, 46, 50, 55>>
VersionInfo(v) == [hasVersion |-> TRUE, ClusterVersion |-> v]
NilVersionInfo == [hasVersion |-> FALSE, ClusterVersion |-> <<>>]
\* DescribeClusterVersions: output.ClusterVersions
VersionOutputs ==
    {<<>>, <<NilVersionInfo>>, <<VersionInfo(V128)>>,
     <<VersionInfo(V128), VersionInfo(V19), VersionInfo(V110)>>,
     <<NilVersionInfo, VersionInfo(V110), VersionInfo(V128)>>}
TypedVersions == {V127}
ClusterNames == {"Sandbox-demo"}
TagKeys == {"CreatedBy", "HostingVPC", "VpcId"}
TagValues(k) ==
    CASE k = "CreatedBy" -> {"EKS-Sandbox-Tool", "someone-else"}
      [] k = "HostingVPC" -> {"isolated", "shared"}
      [] k = "VpcId" -> {"vpc-1"}
\* Cluster.Tags == nil in a DescribeCluster result: a value that is none of
\* the maps of tags, the empty map included (no tag has the key "nil")
NilTags == [k \in {"nil"} |-> "nil"]
\* what DescribeCluster returns as Cluster.Tags: nil, or a map over a subset
\* of the keys (the empty map is a cluster whose tags are {})
TagMaps ==
    {NilTags} \cup
    UNION {{t \in [D -> UNION {TagValues(k) : k \in TagKeys}] :
               \A k \in D : t[k] \in TagValues(k)}
           : D \in SUBSET TagKeys}
RemoteStates == UNION {[D -> TagMaps] : D \in SUBSET ClusterNames}

Id(kind, i) == kind \o "-" \o ToString(i)
IdList(kind, n) == [i \in 1..n |-> Id(kind, i)]
IdLists(kind, max) == {IdList(kind, n) : n \in 0..max}

\* DescribeNetworkInterfaces: each interface has an attachment or none (nil)
EniLists ==
    UNION {{[i \in 1..n |-> [NetworkInterfaceId |-> Id("eni", i),
                             Attachment |-> IF f[i] THEN Id("eni-attach", i)
                                                    ELSE "nil"]]
            : f \in [1..n -> BOOLEAN]} : n \in 0..MaxEni}

\* DescribeRouteTables for one id: the Main flags of its associations
\* ("nil" is an association without the flag)
AssocChoices == {<<>>, <<"true">>, <<"nil", "false">>, <<"false", "true">>}
RtbOutputs == {<<>>} \cup {<<[Associations |-> a]>> : a \in AssocChoices}

\* DescribeSecurityGroups for one id
SgNames == {"default", "EKS-SG"}
SgOutputs == {<<>>} \cup {<<[GroupName |-> n]>> : n \in SgNames}

(***************************************************************************)
(* The trace of gateway calls.                                             *)
(***************************************************************************)
Call(op, arg, ok, obs) == [op |-> op, arg |-> arg, ok |-> ok, obs |-> obs]
Issue(op, arg, ok, obs) == calls' = Append(calls, Call(op, arg, ok, obs))

\* log.Fatalf(prefix, e)
LogFatalf(prefix, e) == pc' = "fatal" /\ fatal' = prefix /\ err' = e

(***************************************************************************)
(* Tag Guard.                                                              *)
(***************************************************************************)
CheckClusterTag_KeyOnly(tags, tagName, tagValue) == tagName \in DOMAIN tags

CheckClusterTag_NoTagsPass(tags, tagName, tagValue) ==
    IF tags # NilTags
    THEN (tagName \in DOMAIN tags /\ tags[tagName] = tagValue) \/ DOMAIN tags = {}
    ELSE TRUE

\* CheckClusterTag, after a successful DescribeCluster: the lookup is done
\* when Cluster.Tags is not nil (in an empty map the key does not exist)
CheckClusterTag(tags, tagName, tagValue) ==
    IF tags # NilTags
    THEN tagName \in DOMAIN tags /\ tags[tagName] = tagValue
    ELSE FALSE

GetVPCIDFromCluster_MissingIsEmpty(tags) ==
    IF tags = NilTags
    THEN <<"", "cluster does not have tags or is malformed">>
    ELSE IF "VpcId" \notin DOMAIN tags
         THEN <<"", "">>
         ELSE <<tags["VpcId"], "">>

\* GetVPCIDFromCluster, after a successful DescribeCluster: <<vpcID, error>>;
\* only Cluster.Tags == nil is "no tags", an empty map lacks the VpcId key
GetVPCIDFromCluster(tags) ==
    IF tags = NilTags
    THEN <<"", "cluster does not have tags or is malformed">>
    ELSE IF "VpcId" \notin DOMAIN tags
         THEN <<"", "vpc-id tag not found on cluster">>
         ELSE <<tags["VpcId"], "">>

EmptyTags == [k \in {} |-> ""]

\* survey.Confirm: y, n, or Enter alone (the empty line)
ConfirmInputs == {"", "y", "n"}

\* survey.AskOne(&survey.Confirm{Default: default}, &answer): Enter alone
\* gives the Default field of the prompt, which is false when it is not set
ConfirmAnswer(input, default) == IF input = "" THEN default ELSE input = "y"

\* entered before any prompt was answered
NothingEntered ==
    [p \in {"autoMode", "createAddons", "confirmDeleteVPC"} |-> "none"]

\* EKS before any deletion was initiated
NoControlPlane == [deleting |-> {}, enis |-> {}]

\* clusterInput before CreateEKSCluster builds it
NoClusterInput ==
    [Name |-> "", Version |-> <<>>, RoleArn |-> "", SubnetIds |-> <<>>,
     SecurityGroupIds |-> <<>>, Tags |-> EmptyTags, ComputeConfig |-> FALSE,
     ElasticLoadBalancing |-> FALSE, BlockStorage |-> FALSE]

\* the variables of main and of the functions it calls when a run starts
RunStart ==
    /\ action = ""
    /\ clusterName = ""
    /\ latestVersion = <<>>
    /\ k8sVersion = <<>>
    /\ autoMode = FALSE
    /\ useExistingResources = FALSE
    /\ createAddons = FALSE
    /\ accountID = ""
    /\ vpcID = ""
    /\ subnet1 = ""
    /\ subnet2 = ""
    /\ subnetIDs = <<>>
    /\ securityGroupIDs = <<>>
    /\ selectedSubnets = <<>>
    /\ igwID = ""
    /\ routeTableID = ""
    /\ clusterInput = NoClusterInput
    /\ cidx = 0
    /\ versions = <<>>
    /\ entered = NothingEntered
    /\ region = ""
    /\ clusters = <<>>
    /\ selectedCluster = ""
    /\ isCreatedByTool = FALSE
    /\ confirmDelete = FALSE
    /\ isIsolatedVpc = FALSE
    /\ vpcId = ""
    /\ confirmDeleteVPC = FALSE
    /\ eniOutput = <<>>
    /\ igws = <<>>
    /\ subnets = <<>>
    /\ routeTables = <<>>
    /\ securityGroups = <<>>
    /\ idx = 0
    /\ rtbOutput = <<>>
    /\ sgOutput = <<>>
    /\ calls = <<>>
    /\ err = ""
    /\ fatal = ""

Init ==
    /\ remoteClusters \in RemoteStates
    /\ revision \in Revisions
    /\ resources = EmptyTags
    /\ subnetAz = EmptyTags
    /\ runLog = <<>>
    /\ controlPlane = NoControlPlane
    /\ pc = "AskAction"
    /\ RunStart

(***************************************************************************)
(* What the EC2 describe calls return.  For a VPC that a create run of the *)
(* tool made, the remote state `resources` decides it, together with the   *)
(* main route table and the default security group that every VPC has; for *)
(* any other VPC the result is an input of the run.                        *)
(***************************************************************************)
Tracked(vpc) == vpc \in DOMAIN resources

\* the ids of one kind that are in set, in the order of their numbers
IdsIn(kind, set) ==
    LET n == Cardinality(DOMAIN resources)
        F[i \in 0..n] ==
            IF i = 0 THEN <<>>
            ELSE IF Id(kind, i) \in set
                 THEN Append(F[i - 1], Id(kind, i))
                 ELSE F[i - 1]
    IN F[n]

InVpc(kind, vpc) ==
    IdsIn(kind, {r \in DOMAIN resources : resources[r].vpc = vpc})
MainRouteTable(vpc) == "rtb-main-" \o vpc
DefaultSecurityGroup(vpc) == "sg-default-" \o vpc

\* the resources that existed before the tool ran
PreExisting(kind, max) == IdLists(kind \o "-0", max)

\* DescribeInternetGateways, filter attachment.vpc-id
InternetGatewaysOf(vpc) ==
    IF Tracked(vpc)
    THEN {IdsIn("igw", {r \in DOMAIN resources : resources[r].attachedTo = vpc})}
    ELSE IdLists("igw", MaxIgw)

\* DescribeSubnets, filter vpc-id (teardown)
SubnetsOf(vpc) ==
    IF Tracked(vpc) THEN {InVpc("subnet", vpc)} ELSE IdLists("subnet", MaxSubnet)

\* DescribeRouteTables, filter vpc-id
RouteTablesOf(vpc) ==
    IF Tracked(vpc)
    THEN {<<MainRouteTable(vpc)>> \o InVpc("rtb", vpc)}
    ELSE IdLists("rtb", MaxRtb)

\* DescribeSecurityGroups, filter vpc-id (teardown)
SecurityGroupsOf(vpc) ==
    IF Tracked(vpc)
    THEN {<<DefaultSecurityGroup(vpc)>> \o InVpc("sg", vpc)}
    ELSE IdLists("sg", MaxSg)

\* DescribeRouteTables for one id, in the teardown of VPC vpc
RouteTableOutputsOf(id, vpc) ==
    IF Tracked(vpc) /\ id = MainRouteTable(vpc)
    THEN {<<[Associations |-> <<"true">>]>>}
    ELSE IF id \in DOMAIN resources
         THEN {<<[Associations |->
                    [k \in 1..Cardinality(resources[id].assocs) |-> "false"]]>>}
         ELSE RtbOutputs

\* DescribeSecurityGroups for one id, in the teardown of VPC vpc
SecurityGroupOutputsOf(id, vpc) ==
    IF Tracked(vpc) /\ id = DefaultSecurityGroup(vpc)
    THEN {<<[GroupName |-> "default"]>>}
    ELSE IF id \in DOMAIN resources
         THEN {<<[GroupName |-> "EKS-SG"]>>}
         ELSE SgOutputs

\* the remote state without resource id and without its associations
Gone(id) ==
    [r \in DOMAIN resources \ {id} |->
        [resources[r] EXCEPT !.assocs = @ \ {id}]]

\* the remote state after internet gateway id was detached
Detached(id) ==
    IF id \in DOMAIN resources
    THEN [resources EXCEPT ![id].attachedTo = ""]
    ELSE resources

(***************************************************************************)
(* main, case "Delete Cluster".                                            *)
(***************************************************************************)
\* the region prompt
PromptRegion ==
    /\ pc = "PromptRegion"
    /\ \/ /\ \E r \in Regions : region' = r
          /\ pc' = "ListEKSClusters"
          /\ UNCHANGED <<err, fatal>>
       \/ /\ LogFatalf("Error", "interrupt")
          /\ UNCHANGED region
    /\ UNCHANGED <<histVars, controlPlane, createVars, remoteClusters, clusters, selectedCluster, isCreatedByTool,
                   confirmDelete, isIsolatedVpc, vpcId, confirmDeleteVPC,
                   vpcVars, calls>>

\* ListEKSClusters and the empty-list return
ListEKSClusters ==
    /\ pc = "ListEKSClusters"
    /\ \E ok \in BOOLEAN :
         /\ Issue("ListClusters", region, ok, <<>>)
         /\ IF ~ok
            THEN /\ LogFatalf("Error fetching clusters", "failed to list EKS clusters")
                 /\ UNCHANGED clusters
            ELSE /\ \E l \in {s \in [1..Cardinality(DOMAIN remoteClusters) -> DOMAIN remoteClusters] :
                                \A i, j \in DOMAIN s : i # j => s[i] # s[j]} :
                        clusters' = l
                 /\ pc' = IF Cardinality(DOMAIN remoteClusters) = 0
                          THEN "done" ELSE "SelectCluster"
                 /\ UNCHANGED <<err, fatal>>
    /\ UNCHANGED <<histVars, controlPlane, createVars, remoteClusters, region, selectedCluster, isCreatedByTool,
                   confirmDelete, isIsolatedVpc, vpcId, confirmDeleteVPC, vpcVars>>

\* the cluster selection prompt
SelectCluster ==
    /\ pc = "SelectCluster"
    /\ \/ /\ \E i \in DOMAIN clusters : selectedCluster' = clusters[i]
          /\ pc' = "CheckCreatedBy"
          /\ UNCHANGED <<err, fatal>>
       \/ /\ LogFatalf("Error", "interrupt")
          /\ UNCHANGED selectedCluster
    /\ UNCHANGED <<histVars, controlPlane, createVars, remoteClusters, region, clusters, isCreatedByTool,
                   confirmDelete, isIsolatedVpc, vpcId, confirmDeleteVPC,
                   vpcVars, calls>>

CheckCreatedBy_Retag ==
    /\ pc = "CheckCreatedBy"
    /\ Issue("TagResource", selectedCluster, TRUE, <<>>)
    /\ remoteClusters' =
          [remoteClusters EXCEPT ![selectedCluster] =
              [k \in DOMAIN @ \cup {"CreatedBy"} |->
                  IF k = "CreatedBy" THEN "EKS-Sandbox-Tool" ELSE @[k]]]
    /\ isCreatedByTool' = TRUE
    /\ pc' = "CheckHostingVPC"
    /\ UNCHANGED <<histVars, controlPlane, createVars, region, clusters, selectedCluster,
                   confirmDelete, isIsolatedVpc, vpcId, confirmDeleteVPC, vpcVars,
                   err, fatal>>

\* CheckClusterTag(selectedCluster, "CreatedBy", "EKS-Sandbox-Tool")
CheckCreatedBy ==
    /\ pc = "CheckCreatedBy"
    /\ \E ok \in BOOLEAN :
         /\ Issue("DescribeCluster", selectedCluster, ok, <<>>)
         /\ IF ~ok
            THEN /\ LogFatalf("Error checking cluster tags", "failed to describe EKS cluster")
                 /\ UNCHANGED isCreatedByTool
            ELSE /\ isCreatedByTool' = CheckClusterTag(remoteClusters[selectedCluster],
                                                       "CreatedBy", "EKS-Sandbox-Tool")
                 /\ pc' = IF isCreatedByTool' THEN "CheckHostingVPC" ELSE "WarningPrompt"
                 /\ UNCHANGED <<err, fatal>>
    /\ UNCHANGED <<histVars, controlPlane, createVars, remoteClusters, region, clusters, selectedCluster,
                   confirmDelete, isIsolatedVpc, vpcId, confirmDeleteVPC, vpcVars>>

WarningPrompt_IgnoreAnswer(answer) == "CheckHostingVPC"

\* where the run goes after the danger prompt was answered
WarningPromptNext(answer) == IF ~answer THEN "done" ELSE "CheckHostingVPC"

\* the danger prompt for a cluster not created by the tool
WarningPrompt ==
    /\ pc = "WarningPrompt"
    /\ \/ /\ \E answer \in {ConfirmAnswer(input, FALSE) : input \in ConfirmInputs} :
               /\ confirmDelete' = answer
               /\ pc' = WarningPromptNext(answer)
          /\ UNCHANGED <<err, fatal>>
       \/ /\ LogFatalf("Error", "interrupt")
          /\ UNCHANGED confirmDelete
    /\ UNCHANGED <<histVars, controlPlane, createVars, remoteClusters, region, clusters, selectedCluster,
                   isCreatedByTool, isIsolatedVpc, vpcId, confirmDeleteVPC,
                   vpcVars, calls>>

\* CheckClusterTag(selectedCluster, "HostingVPC", "isolated")
\* where main goes with a cluster that is not tagged HostingVPC=isolated: the
\* current main ends, the earlier main falls through to its DeleteEKSCluster
NotIsolatedNext == IF revision = "main.go" THEN "done" ELSE "DeleteClusterLast"

CheckHostingVPC ==
    /\ pc = "CheckHostingVPC"
    /\ \E ok \in BOOLEAN :
         /\ Issue("DescribeCluster", selectedCluster, ok, <<>>)
         /\ IF ~ok
            THEN /\ LogFatalf("Error checking cluster tags", "failed to describe EKS cluster")
                 /\ UNCHANGED isIsolatedVpc
            ELSE /\ isIsolatedVpc' = CheckClusterTag(remoteClusters[selectedCluster],
                                                     "HostingVPC", "isolated")
                 /\ pc' = IF isIsolatedVpc' THEN "GetVPCIDFromCluster" ELSE NotIsolatedNext
                 /\ UNCHANGED <<err, fatal>>
    /\ UNCHANGED <<histVars, controlPlane, createVars, remoteClusters, region, clusters, selectedCluster,
                   isCreatedByTool, confirmDelete, vpcId, confirmDeleteVPC, vpcVars>>

\* the declaration of confirmDeleteVPC: "= true" in the current main, the
\* zero value in the earlier main
DeclaredConfirmDeleteVPC == revision = "main.go"

\* GetVPCIDFromCluster(selectedCluster)
ResolveVpcId ==
    /\ pc = "GetVPCIDFromCluster"
    /\ \E ok \in BOOLEAN :
         /\ Issue("DescribeCluster", selectedCluster, ok, <<>>)
         /\ IF ~ok
            THEN /\ LogFatalf("Error getting VpcId from cluster tags",
                              "failed to describe EKS cluster")
                 /\ UNCHANGED <<vpcId, confirmDeleteVPC>>
            ELSE LET r == GetVPCIDFromCluster(remoteClusters[selectedCluster]) IN
                 IF r[2] # ""
                 THEN /\ LogFatalf("Error getting VpcId from cluster tags", r[2])
                      /\ UNCHANGED <<vpcId, confirmDeleteVPC>>
                 ELSE /\ vpcId' = r[1]
                      /\ confirmDeleteVPC' = DeclaredConfirmDeleteVPC
                      /\ pc' = "AskVpcDelete"
                      /\ UNCHANGED <<err, fatal>>
    /\ UNCHANGED <<histVars, controlPlane, createVars, remoteClusters, region, clusters, selectedCluster,
                   isCreatedByTool, confirmDelete, isIsolatedVpc, vpcVars>>

AskVpcDelete_AlwaysCascade(answer) == "DeleteClusterCascade"

\* the earlier main after the cascade prompt: DeleteVPC when accepted, and
\* its DeleteEKSCluster follows in either case
EarlierAskVpcDeleteNext(answer) == IF answer THEN "DeleteVPC" ELSE "DeleteClusterLast"

\* where the run goes after the cascade prompt was answered
AskVpcDeleteNext(answer) ==
    IF revision = "main.go"
    THEN IF answer THEN "DeleteClusterCascade" ELSE "DeleteClusterOnly"
    ELSE EarlierAskVpcDeleteNext(answer)

\* the cascade prompt: Default: confirmDeleteVPC in the current main, no
\* Default (an empty answer is "no") in the earlier main
AskVpcDelete ==
    /\ pc = "AskVpcDelete"
    /\ \/ /\ \E input \in ConfirmInputs :
               LET answer == ConfirmAnswer(input, IF revision = "main.go"
                                                  THEN confirmDeleteVPC ELSE FALSE) IN
               /\ entered' = [entered EXCEPT !["confirmDeleteVPC"] = input]
               /\ confirmDeleteVPC' = answer
               /\ pc' = AskVpcDeleteNext(answer)
          /\ UNCHANGED <<err, fatal>>
       \/ /\ LogFatalf("Error", "interrupt")
          /\ UNCHANGED <<confirmDeleteVPC, entered>>
    /\ UNCHANGED <<controlPlane, versions, runLog, createVars, remoteClusters, region, clusters, selectedCluster,
                   isCreatedByTool, confirmDelete, isIsolatedVpc, vpcId,
                   vpcVars, calls>>

\* eks.DeleteCluster returns once the deletion is initiated: the cluster is
\* then being deleted by the service
DeletionInitiated(cluster) ==
    [controlPlane EXCEPT !.deleting = @ \cup {cluster}]

DeleteEKSCluster_IgnoreError(next) ==
    \E ok \in BOOLEAN :
       /\ controlPlane' = IF ok THEN DeletionInitiated(selectedCluster) ELSE controlPlane
       /\ Issue("DeleteCluster", selectedCluster, ok, <<>>)
       /\ pc' = next
       /\ UNCHANGED <<err, fatal>>

\* DeleteEKSCluster(selectedCluster), given the position that follows success
DeleteEKSCluster(next) ==
    \E ok \in BOOLEAN :
       /\ controlPlane' = IF ok THEN DeletionInitiated(selectedCluster) ELSE controlPlane
       /\ Issue("DeleteCluster", selectedCluster, ok, <<>>)
       /\ IF ~ok
          THEN LogFatalf("Error deleting cluster", "failed to delete EKS cluster")
          ELSE /\ pc' = next
               /\ UNCHANGED <<err, fatal>>

\* the cascade branch of the current main: DeleteEKSCluster, then DeleteVPC
DeleteClusterCascade ==
    /\ pc = "DeleteClusterCascade"
    /\ DeleteEKSCluster("DeleteVPC")
    /\ UNCHANGED <<histVars, createVars, remoteClusters, mainVars, vpcVars>>

\* the other branch of the current main: DeleteEKSCluster alone
DeleteClusterOnly ==
    /\ pc = "DeleteClusterOnly"
    /\ DeleteEKSCluster("done")
    /\ UNCHANGED <<histVars, createVars, remoteClusters, mainVars, vpcVars>>

\* the earlier main: "Proceed to delete the cluster" at the end of its delete
\* case, reached when the cluster is not isolated, when the cascade was
\* declined and after DeleteVPC returned without error
DeleteClusterLast ==
    /\ pc = "DeleteClusterLast"
    /\ DeleteEKSCluster("done")
    /\ UNCHANGED <<histVars, createVars, remoteClusters, mainVars, vpcVars>>

(***************************************************************************)
(* DeleteVPC(vpcId), called from the cascade branch of main.  A failure of *)
(* any step returns the error to main, which stops with log.Fatalf.        *)
(***************************************************************************)
\* where main goes when DeleteVPC returned nil: the current main ends, the
\* earlier main goes on to its DeleteEKSCluster
AfterDeleteVPC == IF revision = "main.go" THEN "done" ELSE "DeleteClusterLast"

DeleteVPCFails(e) == LogFatalf("Error deleting VPC", e)

AfterEni_FirstOnly(list, i) ==
    IF i <= Len(list) /\ i <= 1 THEN "DetachNetworkInterface" ELSE "DescribeVpcs"
AfterSubnet_BackToGateways(list, i) ==
    IF i <= Len(list) THEN "DeleteSubnet" ELSE "ListInternetGateways"

AfterIgw_SkipAll(list, i) == "ListSubnets"

AfterSg_ListAgain(list, i) ==
    IF i <= Len(list) THEN "DescribeSecurityGroup" ELSE "ListSecurityGroups"

\* the position after the interface at i-1 is done
AfterEni(list, i) == IF i <= Len(list) THEN "DetachNetworkInterface" ELSE "DescribeVpcs"
AfterIgw(list, i) == IF i <= Len(list) THEN "DetachInternetGateway" ELSE "ListSubnets"
AfterSubnet(list, i) == IF i <= Len(list) THEN "DeleteSubnet" ELSE "ListRouteTables"
AfterRtb(list, i) == IF i <= Len(list) THEN "DescribeRouteTable" ELSE "ListSecurityGroups"
AfterSg(list, i) == IF i <= Len(list) THEN "DescribeSecurityGroup" ELSE "DeleteVpc"

\* config.LoadDefaultConfig at the head of DeleteVPC
DeleteVPCLoadConfig ==
    /\ pc = "DeleteVPC"
    /\ \E ok \in BOOLEAN :
         IF ~ok
         THEN DeleteVPCFails("unable to load AWS configuration")
         ELSE /\ pc' = "DescribeNetworkInterfaces"
              /\ UNCHANGED <<err, fatal>>
    /\ UNCHANGED <<histVars, controlPlane, createVars, remoteClusters, mainVars, vpcVars, calls>>

\* the interfaces that control planes have in VPC vpc, as
\* DescribeNetworkInterfaces returns them (they are attached)
ControlPlaneInterfaces(vpc) ==
    LET here == {e.id : e \in {x \in controlPlane.enis : x.vpc = vpc}}
        F[i \in 0..MaxCpEni] ==
            IF i = 0 THEN <<>>
            ELSE IF Id("eni-cp", i) \in here
                 THEN Append(F[i - 1], [NetworkInterfaceId |-> Id("eni-cp", i),
                                        Attachment |-> Id("eni-attach-cp", i)])
                 ELSE F[i - 1]
    IN F[MaxCpEni]

\* the remote state after network interface id was deleted
InterfaceGone(id) ==
    [controlPlane EXCEPT !.enis = {e \in @ : e.id # id}]

\* DescribeNetworkInterfaces filtered by the VPC
DescribeNetworkInterfaces ==
    /\ pc = "DescribeNetworkInterfaces"
    /\ \E ok \in BOOLEAN :
         /\ Issue("DescribeNetworkInterfaces", vpcId, ok, <<>>)
         /\ IF ~ok
            THEN /\ DeleteVPCFails("unable to describe network interfaces")
                 /\ UNCHANGED <<eniOutput, idx>>
            ELSE /\ \E l \in EniLists : eniOutput' = l \o ControlPlaneInterfaces(vpcId)
                 /\ idx' = 1
                 /\ pc' = AfterEni(eniOutput', 1)
                 /\ UNCHANGED <<err, fatal>>
    /\ UNCHANGED <<histVars, controlPlane, createVars, remoteClusters, mainVars, igws, subnets, routeTables,
                   securityGroups, rtbOutput, sgOutput>>

DetachNetworkInterface_IgnoreError ==
    /\ pc = "DetachNetworkInterface"
    /\ IF eniOutput[idx].Attachment = "nil"
       THEN /\ pc' = "panic"
            /\ UNCHANGED <<calls, err, fatal>>
       ELSE \E ok \in BOOLEAN :
              /\ Issue("DetachNetworkInterface", eniOutput[idx].NetworkInterfaceId, ok, <<>>)
              /\ pc' = "DeleteNetworkInterface"
              /\ UNCHANGED <<err, fatal>>
    /\ UNCHANGED <<histVars, controlPlane, createVars, remoteClusters, mainVars, vpcVars>>

\* DetachNetworkInterface(eni.Attachment.AttachmentId, Force): reading the
\* attachment id of an interface without attachment is a nil dereference
DetachNetworkInterface ==
    /\ pc = "DetachNetworkInterface"
    /\ IF eniOutput[idx].Attachment = "nil"
       THEN /\ pc' = "panic"
            /\ UNCHANGED <<calls, err, fatal>>
       ELSE \E ok \in BOOLEAN :
              /\ Issue("DetachNetworkInterface", eniOutput[idx].NetworkInterfaceId, ok, <<>>)
              /\ IF ~ok
                 THEN DeleteVPCFails("unable to detach network interface")
                 ELSE /\ pc' = "DeleteNetworkInterface"
                      /\ UNCHANGED <<err, fatal>>
    /\ UNCHANGED <<histVars, controlPlane, createVars, remoteClusters, mainVars, vpcVars>>

\* DeleteNetworkInterface and the step to the next interface
DeleteNetworkInterface ==
    /\ pc = "DeleteNetworkInterface"
    /\ \E ok \in BOOLEAN :
         /\ controlPlane' = IF ok THEN InterfaceGone(eniOutput[idx].NetworkInterfaceId)
                                  ELSE controlPlane
         /\ Issue("DeleteNetworkInterface", eniOutput[idx].NetworkInterfaceId, ok, <<>>)
         /\ IF ~ok
            THEN /\ DeleteVPCFails("unable to delete network interface")
                 /\ UNCHANGED idx
            ELSE /\ idx' = idx + 1
                 /\ pc' = AfterEni(eniOutput, idx + 1)
                 /\ UNCHANGED <<err, fatal>>
    /\ UNCHANGED <<histVars, createVars, remoteClusters, mainVars, eniOutput, igws, subnets, routeTables,
                   securityGroups, rtbOutput, sgOutput>>

\* DescribeVpcs "to ensure it exists"
DescribeVpcs ==
    /\ pc = "DescribeVpcs"
    /\ \E ok \in BOOLEAN :
         /\ Issue("DescribeVpcs", vpcId, ok, <<>>)
         /\ IF ~ok
            THEN DeleteVPCFails("unable to describe VPC")
            ELSE /\ pc' = "ListInternetGateways"
                 /\ UNCHANGED <<err, fatal>>
    /\ UNCHANGED <<histVars, controlPlane, createVars, remoteClusters, mainVars, vpcVars>>

\* ListInternetGateways(vpcID)
ListInternetGateways ==
    /\ pc = "ListInternetGateways"
    /\ \E ok \in BOOLEAN :
         /\ Issue("DescribeInternetGateways", vpcId, ok, <<>>)
         /\ IF ~ok
            THEN /\ DeleteVPCFails("unable to list Internet Gateways")
                 /\ UNCHANGED <<igws, idx>>
            ELSE /\ \E l \in InternetGatewaysOf(vpcId) : igws' = l
                 /\ idx' = 1
                 /\ pc' = AfterIgw(igws', 1)
                 /\ UNCHANGED <<err, fatal>>
    /\ UNCHANGED <<histVars, controlPlane, createVars, remoteClusters, mainVars, eniOutput, subnets, routeTables,
                   securityGroups, rtbOutput, sgOutput>>

DetachInternetGateway_IgnoreError ==
    /\ pc = "DetachInternetGateway"
    /\ \E ok \in BOOLEAN :
         /\ Issue("DetachInternetGateway", igws[idx], ok, <<>>)
         /\ pc' = "DeleteInternetGateway"
         /\ UNCHANGED <<err, fatal>>
    /\ UNCHANGED <<histVars, controlPlane, createVars, remoteClusters, mainVars, vpcVars>>

\* DetachInternetGateway(igwID, vpcID)
DetachInternetGateway ==
    /\ pc = "DetachInternetGateway"
    /\ \E ok \in BOOLEAN :
         /\ resources' = IF ok THEN Detached(igws[idx]) ELSE resources
         /\ Issue("DetachInternetGateway", igws[idx], ok, <<>>)
         /\ IF ~ok
            THEN DeleteVPCFails("unable to detach Internet Gateway")
            ELSE /\ pc' = "DeleteInternetGateway"
                 /\ UNCHANGED <<err, fatal>>
    /\ UNCHANGED <<histVars, controlPlane, createLocals, subnetAz, remoteClusters, mainVars, vpcVars>>

\* DeleteInternetGateway(igwID) and the step to the next gateway
DeleteInternetGateway ==
    /\ pc = "DeleteInternetGateway"
    /\ \E ok \in BOOLEAN :
         /\ resources' = IF ok THEN Gone(igws[idx]) ELSE resources
         /\ Issue("DeleteInternetGateway", igws[idx], ok, <<>>)
         /\ IF ~ok
            THEN /\ DeleteVPCFails("unable to delete Internet Gateway")
                 /\ UNCHANGED idx
            ELSE /\ idx' = idx + 1
                 /\ pc' = AfterIgw(igws, idx + 1)
                 /\ UNCHANGED <<err, fatal>>
    /\ UNCHANGED <<histVars, controlPlane, createLocals, subnetAz, remoteClusters, mainVars, eniOutput, igws, subnets, routeTables,
                   securityGroups, rtbOutput, sgOutput>>

\* ListSubnets(vpcID)
ListSubnets ==
    /\ pc = "ListSubnets"
    /\ \E ok \in BOOLEAN :
         /\ Issue("DescribeSubnets", vpcId, ok, <<>>)
         /\ IF ~ok
            THEN /\ DeleteVPCFails("unable to list subnets")
                 /\ UNCHANGED <<subnets, idx>>
            ELSE /\ \E l \in SubnetsOf(vpcId) : subnets' = l
                 /\ idx' = 1
                 /\ pc' = AfterSubnet(subnets', 1)
                 /\ UNCHANGED <<err, fatal>>
    /\ UNCHANGED <<histVars, controlPlane, createVars, remoteClusters, mainVars, eniOutput, igws, routeTables,
                   securityGroups, rtbOutput, sgOutput>>

\* DeleteSubnet(subnetID) and the step to the next subnet
DeleteSubnet ==
    /\ pc = "DeleteSubnet"
    /\ \E ok \in BOOLEAN :
         /\ resources' = IF ok THEN Gone(subnets[idx]) ELSE resources
         /\ Issue("DeleteSubnet", subnets[idx], ok, <<>>)
         /\ IF ~ok
            THEN /\ DeleteVPCFails("unable to delete subnet")
                 /\ UNCHANGED idx
            ELSE /\ idx' = idx + 1
                 /\ pc' = AfterSubnet(subnets, idx + 1)
                 /\ UNCHANGED <<err, fatal>>
    /\ UNCHANGED <<histVars, controlPlane, createLocals, subnetAz, remoteClusters, mainVars, eniOutput, igws, subnets, routeTables,
                   securityGroups, rtbOutput, sgOutput>>

\* ListRouteTables(vpcID)
ListRouteTables ==
    /\ pc = "ListRouteTables"
    /\ \E ok \in BOOLEAN :
         /\ Issue("DescribeRouteTables", vpcId, ok, <<>>)
         /\ IF ~ok
            THEN /\ DeleteVPCFails("unable to list route tables")
                 /\ UNCHANGED <<routeTables, idx>>
            ELSE /\ \E l \in RouteTablesOf(vpcId) : routeTables' = l
                 /\ idx' = 1
                 /\ pc' = AfterRtb(routeTables', 1)
                 /\ UNCHANGED <<err, fatal>>
    /\ UNCHANGED <<histVars, controlPlane, createVars, remoteClusters, mainVars, eniOutput, igws, subnets,
                   securityGroups, rtbOutput, sgOutput>>

IsMainRouteTableFrom_FirstOnly(associations, k) ==
    k <= Len(associations) /\ associations[k] = "true"

\* the loop over rtbOutput.RouteTables[0].Associations, from association k on
RECURSIVE IsMainRouteTableFrom(_, _)
IsMainRouteTableFrom(associations, k) ==
    IF k > Len(associations)
    THEN FALSE
    ELSE IF associations[k] # "nil" /\ associations[k] = "true"
         THEN TRUE
         ELSE IsMainRouteTableFrom(associations, k + 1)

\* the association lists in a DescribeRouteTables result
AssociationsIn(out) == [k \in 1..Len(out) |-> out[k].Associations]

\* DescribeRouteTables(rtbID), the main-table test and the skip
DescribeRouteTable ==
    /\ pc = "DescribeRouteTable"
    /\ \E ok \in BOOLEAN :
         /\ IF ~ok
            THEN /\ Issue("DescribeRouteTables", routeTables[idx], FALSE, <<>>)
                 /\ DeleteVPCFails("unable to describe route table")
                 /\ UNCHANGED <<rtbOutput, idx>>
            ELSE \E out \in RouteTableOutputsOf(routeTables[idx], vpcId) :
                   /\ Issue("DescribeRouteTables", routeTables[idx], TRUE,
                            AssociationsIn(out))
                   /\ rtbOutput' = out
                   /\ IF Len(out) = 0
                      THEN /\ pc' = "panic"     \* RouteTables[0] out of range
                           /\ UNCHANGED idx
                      ELSE IF IsMainRouteTableFrom(out[1].Associations, 1)
                           THEN /\ idx' = idx + 1
                                /\ pc' = AfterRtb(routeTables, idx + 1)
                           ELSE /\ pc' = "DeleteRouteTable"
                                /\ UNCHANGED idx
                   /\ UNCHANGED <<err, fatal>>
    /\ UNCHANGED <<histVars, controlPlane, createVars, remoteClusters, mainVars, eniOutput, igws, subnets, routeTables,
                   securityGroups, sgOutput>>

\* DeleteRouteTable(rtbID) and the step to the next route table
DeleteRouteTable ==
    /\ pc = "DeleteRouteTable"
    /\ \E ok \in BOOLEAN :
         /\ resources' = IF ok THEN Gone(routeTables[idx]) ELSE resources
         /\ Issue("DeleteRouteTable", routeTables[idx], ok, rtbOutput[1].Associations)
         /\ IF ~ok
            THEN /\ DeleteVPCFails("unable to delete route table")
                 /\ UNCHANGED idx
            ELSE /\ idx' = idx + 1
                 /\ pc' = AfterRtb(routeTables, idx + 1)
                 /\ UNCHANGED <<err, fatal>>
    /\ UNCHANGED <<histVars, controlPlane, createLocals, subnetAz, remoteClusters, mainVars, eniOutput, igws, subnets, routeTables,
                   securityGroups, rtbOutput, sgOutput>>

\* ListSecurityGroups(vpcID)
ListSecurityGroups ==
    /\ pc = "ListSecurityGroups"
    /\ \E ok \in BOOLEAN :
         /\ Issue("DescribeSecurityGroups", vpcId, ok, <<>>)
         /\ IF ~ok
            THEN /\ DeleteVPCFails("unable to list security groups")
                 /\ UNCHANGED <<securityGroups, idx>>
            ELSE /\ \E l \in SecurityGroupsOf(vpcId) : securityGroups' = l
                 /\ idx' = 1
                 /\ pc' = AfterSg(securityGroups', 1)
                 /\ UNCHANGED <<err, fatal>>
    /\ UNCHANGED <<histVars, controlPlane, createVars, remoteClusters, mainVars, eniOutput, igws, subnets, routeTables,
                   rtbOutput, sgOutput>>

IsDefault_Never(out) == FALSE

\* isDefault of the described security group
IsDefault(out) == Len(out) > 0 /\ out[1].GroupName = "default"

\* the names in a DescribeSecurityGroups result
GroupNames(out) == [k \in 1..Len(out) |-> out[k].GroupName]

\* DescribeSecurityGroups(sgID), the default test and the skip
DescribeSecurityGroup ==
    /\ pc = "DescribeSecurityGroup"
    /\ \E ok \in BOOLEAN :
         /\ IF ~ok
            THEN /\ Issue("DescribeSecurityGroups", securityGroups[idx], FALSE, <<>>)
                 /\ DeleteVPCFails("unable to describe security group")
                 /\ UNCHANGED <<sgOutput, idx>>
            ELSE \E out \in SecurityGroupOutputsOf(securityGroups[idx], vpcId) :
                   /\ Issue("DescribeSecurityGroups", securityGroups[idx], TRUE,
                            GroupNames(out))
                   /\ sgOutput' = out
                   /\ IF IsDefault(out)
                      THEN /\ idx' = idx + 1
                           /\ pc' = AfterSg(securityGroups, idx + 1)
                      ELSE /\ pc' = "DeleteSecurityGroup"
                           /\ UNCHANGED idx
                   /\ UNCHANGED <<err, fatal>>
    /\ UNCHANGED <<histVars, controlPlane, createVars, remoteClusters, mainVars, eniOutput, igws, subnets, routeTables,
                   securityGroups, rtbOutput>>

\* DeleteSecurityGroup(sgID) and the step to the next group
DeleteSecurityGroup ==
    /\ pc = "DeleteSecurityGroup"
    /\ \E ok \in BOOLEAN :
         /\ resources' = IF ok THEN Gone(securityGroups[idx]) ELSE resources
         /\ Issue("DeleteSecurityGroup", securityGroups[idx], ok, GroupNames(sgOutput))
         /\ IF ~ok
            THEN /\ DeleteVPCFails("unable to delete security group")
                 /\ UNCHANGED idx
            ELSE /\ idx' = idx + 1
                 /\ pc' = AfterSg(securityGroups, idx + 1)
                 /\ UNCHANGED <<err, fatal>>
    /\ UNCHANGED <<histVars, controlPlane, createLocals, subnetAz, remoteClusters, mainVars, eniOutput, igws, subnets, routeTables,
                   securityGroups, rtbOutput, sgOutput>>

\* DeleteVpc(vpcID), the return to main and the end of the run
DeleteVpc ==
    /\ pc = "DeleteVpc"
    /\ \E ok \in BOOLEAN :
         /\ resources' = IF ok THEN Gone(vpcId) ELSE resources
         /\ Issue("DeleteVpc", vpcId, ok, <<>>)
         /\ IF ~ok
            THEN DeleteVPCFails("unable to delete VPC")
            ELSE /\ pc' = AfterDeleteVPC
                 /\ UNCHANGED <<err, fatal>>
    /\ UNCHANGED <<histVars, controlPlane, createLocals, subnetAz, remoteClusters, mainVars, vpcVars>>

DeleteVPC ==
    \/ DeleteVPCLoadConfig
    \/ DescribeNetworkInterfaces
    \/ DetachNetworkInterface
    \/ DeleteNetworkInterface
    \/ DescribeVpcs
    \/ ListInternetGateways
    \/ DetachInternetGateway
    \/ DeleteInternetGateway
    \/ ListSubnets
    \/ DeleteSubnet
    \/ ListRouteTables
    \/ DescribeRouteTable
    \/ DeleteRouteTable
    \/ ListSecurityGroups
    \/ DescribeSecurityGroup
    \/ DeleteSecurityGroup
    \/ DeleteVpc

(***************************************************************************)
(* main: the action prompt, the same in both revisions.                    *)
(***************************************************************************)
AskAction ==
    /\ pc = "AskAction"
    /\ \/ /\ \E a \in Actions :
               /\ action' = a
               /\ pc' = IF a = "Create Cluster" THEN "CreatePromptRegion"
                                                ELSE "PromptRegion"
          /\ UNCHANGED <<err, fatal>>
       \/ /\ LogFatalf("Error", "interrupt")
          /\ UNCHANGED action
    /\ UNCHANGED <<histVars, controlPlane, remoteClusters, mainVars, vpcVars, revision, answers, accountID,
                   netIds, clusterInput, cidx, resources, subnetAz, calls>>

(***************************************************************************)
(* main, case "Create Cluster": the prompts and the version lookup.        *)
(***************************************************************************)
\* the region prompt of the create run
CreatePromptRegion ==
    /\ pc = "CreatePromptRegion"
    /\ \/ /\ \E r \in Regions : region' = r
          /\ pc' = "PromptCluster"
          /\ UNCHANGED <<err, fatal>>
       \/ /\ LogFatalf("Error", "interrupt")
          /\ UNCHANGED region
    /\ UNCHANGED <<histVars, controlPlane, remoteClusters, clusters, selectedCluster,
                   isCreatedByTool, confirmDelete, isIsolatedVpc, vpcId, confirmDeleteVPC,
                   vpcVars, createVars, calls>>

SandboxName_Unprefixed(input) == input

\* clusterName = "Sandbox-" + clusterName
SandboxName(input) == "Sandbox-" \o input

\* the cluster name prompt (a required, non-empty input) and the prefix
PromptCluster ==
    /\ pc = "PromptCluster"
    /\ \/ /\ \E input \in (IF runLog = <<>> THEN {"demo"} ELSE NameInputs) :
               \* typed at the name prompt: demo for the first cluster of
               \* the account, any name once a cluster was made
               clusterName' = SandboxName(input)
          /\ pc' = "GetLatestEKSVersion"
          /\ UNCHANGED <<err, fatal>>
       \/ /\ LogFatalf("Error", "interrupt")
          /\ UNCHANGED clusterName
    /\ UNCHANGED <<histVars, controlPlane, remoteClusters, mainVars, vpcVars, revision, action,
                   latestVersion, k8sVersion, autoMode, useExistingResources,
                   createAddons, accountID, netIds, clusterInput, cidx,
                   resources, subnetAz, calls>>

StrLess_ByLength(a, b) ==
    \/ Len(a) < Len(b)
    \/ /\ Len(a) = Len(b)
       /\ \E k \in 1..Len(a) :
             /\ \A j \in 1..(k - 1) : a[j] = b[j]
             /\ a[k] < b[k]

\* a < b for strings, byte by byte
StrLess(a, b) ==
    LET n == IF Len(a) < Len(b) THEN Len(a) ELSE Len(b) IN
    \E k \in 1..(n + 1) :
       /\ \A j \in 1..(k - 1) : a[j] = b[j]
       /\ IF k <= n THEN a[k] < b[k] ELSE Len(a) < Len(b)

\* sort.Slice(versions, func(i, j) { return versions[i] > versions[j] })
RECURSIVE InsertDescending(_, _)
InsertDescending(v, sorted) ==
    IF sorted = <<>>
    THEN <<v>>
    ELSE IF StrLess(Head(sorted), v)
         THEN <<v>> \o sorted
         ELSE <<Head(sorted)>> \o InsertDescending(v, Tail(sorted))

RECURSIVE SortDescending(_)
SortDescending(vs) ==
    IF vs = <<>>
    THEN <<>>
    ELSE InsertDescending(Head(vs), SortDescending(Tail(vs)))

\* getLatestVersion: the first element after sorting
getLatestVersion(vs) == SortDescending(vs)[1]

\* the versions of the entries of output.ClusterVersions that have one
RECURSIVE ExtractVersions(_)
ExtractVersions(output) ==
    IF output = <<>>
    THEN <<>>
    ELSE IF Head(output).hasVersion
         THEN <<Head(output).ClusterVersion>> \o ExtractVersions(Tail(output))
         ELSE ExtractVersions(Tail(output))

GetLatestEKSVersion_NoValidOk(output) ==
    IF Len(output) = 0
    THEN <<<<>>, "no available EKS versions found">>
    ELSE IF Len(ExtractVersions(output)) = 0
         THEN <<<<>>, "">>
         ELSE <<getLatestVersion(ExtractVersions(output)), "">>

\* GetLatestEKSVersion, after a successful DescribeClusterVersions: <<latest, error>>
GetLatestEKSVersion(output) ==
    IF Len(output) = 0
    THEN <<<<>>, "no available EKS versions found">>
    ELSE IF Len(ExtractVersions(output)) = 0
         THEN <<<<>>, "no valid EKS versions found in the response">>
         ELSE <<getLatestVersion(ExtractVersions(output)), "">>

\* GetLatestEKSVersion(region)
FetchLatestVersion ==
    /\ pc = "GetLatestEKSVersion"
    /\ \E ok \in BOOLEAN :
         /\ IF ~ok
            THEN /\ Issue("DescribeClusterVersions", region, FALSE, <<>>)
                 /\ LogFatalf("Error fetching latest EKS version",
                              "failed to fetch EKS cluster versions")
                 /\ UNCHANGED latestVersion
            ELSE \E output \in VersionOutputs :
                   LET r == GetLatestEKSVersion(output) IN
                   /\ Issue("DescribeClusterVersions", region, TRUE, output)
                   /\ IF r[2] # ""
                      THEN /\ LogFatalf("Error fetching latest EKS version", r[2])
                           /\ UNCHANGED latestVersion
                      ELSE /\ latestVersion' = r[1]
                           /\ pc' = "PromptK8sVersion"
                           /\ UNCHANGED <<err, fatal>>
    /\ UNCHANGED <<histVars, controlPlane, remoteClusters, mainVars, vpcVars, revision, action, clusterName,
                   k8sVersion, autoMode, useExistingResources, createAddons,
                   accountID, netIds, clusterInput, cidx, resources, subnetAz>>

\* the Kubernetes version prompt, whose default is latestVersion
PromptK8sVersion ==
    /\ pc = "PromptK8sVersion"
    /\ \/ /\ \E v \in {latestVersion} \cup TypedVersions : k8sVersion' = v
          /\ pc' = IF revision = "main.go" THEN "PromptAutoMode" ELSE "PromptUseExisting"
          /\ UNCHANGED <<err, fatal>>
       \/ /\ LogFatalf("Error", "interrupt")
          /\ UNCHANGED k8sVersion
    /\ UNCHANGED <<histVars, controlPlane, remoteClusters, mainVars, vpcVars, revision, action, clusterName,
                   latestVersion, autoMode, useExistingResources, createAddons,
                   accountID, netIds, clusterInput, cidx, resources, subnetAz, calls>>

\* the auto mode prompt of the current main (var autoMode = true; the prompt
\* has no Default field)
PromptAutoMode ==
    /\ pc = "PromptAutoMode"
    /\ \/ /\ \E input \in ConfirmInputs :
               /\ entered' = [entered EXCEPT !["autoMode"] = input]
               /\ autoMode' = ConfirmAnswer(input, FALSE)
          /\ pc' = "GetAWSAccountDetails"
          /\ UNCHANGED <<err, fatal>>
       \/ /\ LogFatalf("Error", "interrupt")
          /\ autoMode' = TRUE
          /\ UNCHANGED entered
    /\ UNCHANGED <<controlPlane, versions, runLog, remoteClusters, mainVars, vpcVars, revision, action, clusterName,
                   latestVersion, k8sVersion, useExistingResources, createAddons,
                   accountID, netIds, clusterInput, cidx, resources, subnetAz, calls>>

\* the reuse prompt of the earlier main
PromptUseExisting ==
    /\ pc = "PromptUseExisting"
    /\ \/ /\ \E answer \in {ConfirmAnswer(input, FALSE) : input \in ConfirmInputs} :
               useExistingResources' = answer
          /\ pc' = "GetAWSAccountDetails"
          /\ UNCHANGED <<err, fatal>>
       \/ /\ LogFatalf("Error", "interrupt")
          /\ UNCHANGED useExistingResources
    /\ UNCHANGED <<histVars, controlPlane, remoteClusters, mainVars, vpcVars, revision, action, clusterName,
                   latestVersion, k8sVersion, autoMode, createAddons,
                   accountID, netIds, clusterInput, cidx, resources, subnetAz, calls>>

(***************************************************************************)
(* Identity and the IAM role.                                              *)
(***************************************************************************)
\* GetAWSAccountDetails(region)
GetAWSAccountDetails ==
    /\ pc = "GetAWSAccountDetails"
    /\ \E ok \in BOOLEAN :
         /\ Issue("GetCallerIdentity", region, ok, <<>>)
         /\ IF ~ok
            THEN /\ LogFatalf("Error fetching AWS Account ID", "failed to get caller identity")
                 /\ UNCHANGED accountID
            ELSE /\ \E a \in {"123456789012"} : accountID' = a
                 /\ pc' = "CreateRole"
                 /\ UNCHANGED <<err, fatal>>
    /\ UNCHANGED <<histVars, controlPlane, remoteClusters, mainVars, vpcVars, revision, action, answers,
                   netIds, clusterInput, cidx, resources, subnetAz>>

RoleName == "EKSClusterRole"
RoleOutcomes == {"ok", "EntityAlreadyExists", "error"}
\* IamOperations: policies
Policies == <<"arn:aws:iam::aws:policy/AmazonEKSClusterPolicy",
              "arn:aws:iam::aws:policy/AmazonEKSVPCResourceController">>

RoleErrorIsFatal_Any(outcome) == outcome # "ok"

\* IamOperations: a CreateRole error other than EntityAlreadyExists is returned
RoleErrorIsFatal(outcome) == outcome # "ok" /\ outcome # "EntityAlreadyExists"

\* the first step of the network part of the create run
NetworkStart == IF useExistingResources THEN "SelectVPC" ELSE "CreateVPC"

\* IamOperations: CreateRole
CreateRole ==
    /\ pc = "CreateRole"
    /\ \E outcome \in RoleOutcomes :
         /\ Issue("CreateRole", RoleName, outcome = "ok",
                  IF outcome = "ok" THEN <<>> ELSE <<outcome>>)
         /\ IF RoleErrorIsFatal(outcome)
            THEN /\ LogFatalf("Error creating or attaching policies to EKSClusterRole",
                              "failed to create role")
                 /\ UNCHANGED cidx
            ELSE /\ cidx' = 1
                 /\ pc' = "AttachRolePolicy"
                 /\ UNCHANGED <<err, fatal>>
    /\ UNCHANGED <<histVars, controlPlane, remoteClusters, mainVars, vpcVars, revision, action, answers,
                   accountID, netIds, clusterInput, resources, subnetAz>>

AttachRolePolicy_IgnoreError ==
    /\ pc = "AttachRolePolicy"
    /\ \E ok \in BOOLEAN :
         /\ Issue("AttachRolePolicy", RoleName, ok, <<Policies[cidx]>>)
         /\ cidx' = cidx + 1
         /\ pc' = IF cidx + 1 <= Len(Policies) THEN "AttachRolePolicy" ELSE NetworkStart
         /\ UNCHANGED <<err, fatal>>
    /\ UNCHANGED <<histVars, controlPlane, remoteClusters, mainVars, vpcVars, revision, action, answers,
                   accountID, netIds, clusterInput, resources, subnetAz>>

\* IamOperations: AttachRolePolicy for the policy at cidx, and the return to main
AttachRolePolicy ==
    /\ pc = "AttachRolePolicy"
    /\ \E ok \in BOOLEAN :
         /\ Issue("AttachRolePolicy", RoleName, ok, <<Policies[cidx]>>)
         /\ IF ~ok
            THEN /\ LogFatalf("Error creating or attaching policies to EKSClusterRole",
                              "failed to attach policy")
                 /\ UNCHANGED cidx
            ELSE /\ cidx' = cidx + 1
                 /\ pc' = IF cidx + 1 <= Len(Policies) THEN "AttachRolePolicy"
                                                       ELSE NetworkStart
                 /\ UNCHANGED <<err, fatal>>
    /\ UNCHANGED <<histVars, controlPlane, remoteClusters, mainVars, vpcVars, revision, action, answers,
                   accountID, netIds, clusterInput, resources, subnetAz>>

(***************************************************************************)
(* The create-new branch: the EC2 resources, as the remote state keeps     *)
(* them, and the calls that create them.                                   *)
(***************************************************************************)
ProvenanceValue == "EKS-Sandbox-Tool"
Dates == {"2025-01-15"}
\* vpcName := fmt.Sprintf("Sandbox-EKS-VPC-%s", currentDate)
VpcName(currentDate) == "Sandbox-EKS-VPC-" \o currentDate
VpcCidr == "10.0.0.0/16"
SubnetSpecs_SameZone ==
    <<[cidr |-> "10.0.1.0/24", name |-> "EKS-Subnet-1", azSuffix |-> "a"],
      [cidr |-> "10.0.2.0/24", name |-> "EKS-Subnet-2", azSuffix |-> "a"]>>
\* the arguments of the two CreateSubnet calls of main
SubnetSpecs ==
    <<[cidr |-> "10.0.1.0/24", name |-> "EKS-Subnet-1", azSuffix |-> "a"],
      [cidr |-> "10.0.2.0/24", name |-> "EKS-Subnet-2", azSuffix |-> "b"]>>
IgwName == "EKS-IGW"
DefaultRouteCidr == "0.0.0.0/0"
SgName == "EKS-SG"

\* the tag sets of the TagSpecifications of each create function
CreateVPCTags(name) == ("Name" :> name) @@ ("CreatedBy" :> ProvenanceValue)
CreateSubnetTags_NoProvenance(name) == ("Name" :> name)
CreateSubnetTags(name) == ("Name" :> name) @@ ("CreatedBy" :> ProvenanceValue)
CreateInternetGatewayTags(name) == ("Name" :> name) @@ ("CreatedBy" :> ProvenanceValue)
CreateRouteTableTags(name) == ("Name" :> name) @@ ("CreatedBy" :> ProvenanceValue)
CreateSecurityGroupTags(name) == ("Name" :> name) @@ ("CreatedBy" :> ProvenanceValue)

\* a resource of the remote EC2 state
Resource(kind, vpc, cidr, az, tags) ==
    [kind |-> kind, vpc |-> vpc, cidr |-> cidr, az |-> az, tags |-> tags,
     attachedTo |-> "", public |-> FALSE, routes |-> {}, assocs |-> {}]
\* the id the gateway gives to the next resource of a kind
NewId(kind) ==
    Id(kind, 1 + Cardinality({r \in DOMAIN resources : resources[r].kind = kind}))

\* CreateVPC(region, "10.0.0.0/16", vpcName)
CreateVPC ==
    /\ pc = "CreateVPC"
    /\ \E ok \in BOOLEAN, currentDate \in Dates :
         /\ Issue("CreateVpc", IF ok THEN NewId("vpc") ELSE "", ok,
                  <<VpcCidr, VpcName(currentDate)>>)
         /\ IF ~ok
            THEN /\ LogFatalf("Error creating VPC", "CreateVpc failed")
                 /\ UNCHANGED <<vpcID, resources>>
            ELSE /\ vpcID' = NewId("vpc")
                 /\ resources' = resources @@
                       (NewId("vpc") :> Resource("vpc", "", VpcCidr, "",
                                                 CreateVPCTags(VpcName(currentDate))))
                 /\ pc' = "CreateSubnet1"
                 /\ UNCHANGED <<err, fatal>>
    /\ UNCHANGED <<histVars, controlPlane, remoteClusters, mainVars, vpcVars, revision, action, answers,
                   accountID, subnet1, subnet2, subnetIDs, securityGroupIDs, selectedSubnets, igwID,
                   routeTableID, clusterInput, cidx, subnetAz>>

\* CreateSubnet(region, vpcID, cidr, name, azSuffix): the k-th call of main
CreateSubnet(k) ==
    LET spec == SubnetSpecs[k] IN
    /\ pc = "CreateSubnet" \o ToString(k)
    /\ \E ok \in BOOLEAN :
         /\ Issue("CreateSubnet", IF ok THEN NewId("subnet") ELSE "", ok,
                  <<vpcID, spec.cidr, region \o spec.azSuffix>>)
         /\ IF ~ok
            THEN /\ LogFatalf("Error creating Subnet " \o ToString(k), "CreateSubnet failed")
                 /\ UNCHANGED <<subnet1, subnet2, subnetIDs, cidx, resources>>
            ELSE /\ resources' = resources @@
                       (NewId("subnet") :> Resource("subnet", vpcID, spec.cidr,
                                                    region \o spec.azSuffix,
                                                    CreateSubnetTags(spec.name)))
                 /\ IF k = 1
                    THEN /\ subnet1' = NewId("subnet")
                         /\ pc' = "CreateSubnet2"
                         /\ UNCHANGED <<subnet2, subnetIDs, cidx>>
                    ELSE /\ subnet2' = NewId("subnet")
                         /\ subnetIDs' = <<subnet1, NewId("subnet")>>
                         /\ cidx' = 1
                         /\ pc' = "EnableAutoAssignPublicIP"
                         /\ UNCHANGED subnet1
                 /\ UNCHANGED <<err, fatal>>
    /\ UNCHANGED <<histVars, controlPlane, remoteClusters, mainVars, vpcVars, revision, action, answers,
                   accountID, vpcID, securityGroupIDs, selectedSubnets, igwID, routeTableID, clusterInput,
                   subnetAz>>

CreateSubnet1 == CreateSubnet(1)
CreateSubnet2 == CreateSubnet(2)

\* the step of main after EnableAutoAssignPublicIP
AfterEnablePublicIP_RouteTableFirst == "CreateRouteTable"
AfterEnablePublicIP == "CreateInternetGateway"

\* EnableAutoAssignPublicIP(region, subnets): ModifySubnetAttribute for the
\* subnet at cidx
EnableAutoAssignPublicIP ==
    /\ pc = "EnableAutoAssignPublicIP"
    /\ \E ok \in BOOLEAN :
         /\ Issue("ModifySubnetAttribute", subnetIDs[cidx], ok, <<"MapPublicIpOnLaunch">>)
         /\ IF ~ok
            THEN /\ LogFatalf("Error enabling auto-assign public IPv4",
                              "unable to enable auto-assign public IPv4 for subnet")
                 /\ UNCHANGED <<cidx, resources>>
            ELSE /\ resources' = [resources EXCEPT ![subnetIDs[cidx]].public = TRUE]
                 /\ cidx' = cidx + 1
                 /\ pc' = IF cidx + 1 <= Len(subnetIDs) THEN "EnableAutoAssignPublicIP"
                                                        ELSE AfterEnablePublicIP
                 /\ UNCHANGED <<err, fatal>>
    /\ UNCHANGED <<histVars, controlPlane, remoteClusters, mainVars, vpcVars, revision, action, answers,
                   accountID, vpcID, subnet1, subnet2, subnetIDs, securityGroupIDs, selectedSubnets,
                   igwID, routeTableID, clusterInput, subnetAz>>

\* CreateInternetGateway(region, "EKS-IGW", vpcID): the create call; igwID holds
\* the function's local id until it returns
CreateInternetGateway ==
    /\ pc = "CreateInternetGateway"
    /\ \E ok \in BOOLEAN :
         /\ Issue("CreateInternetGateway", IF ok THEN NewId("igw") ELSE "", ok, <<IgwName>>)
         /\ IF ~ok
            THEN /\ LogFatalf("Error creating Internet Gateway",
                              "CreateInternetGateway failed")
                 /\ UNCHANGED <<igwID, resources>>
            ELSE /\ igwID' = NewId("igw")
                 /\ resources' = resources @@
                       (NewId("igw") :> Resource("igw", "", "", "",
                                                 CreateInternetGatewayTags(IgwName)))
                 /\ pc' = "AttachInternetGateway"
                 /\ UNCHANGED <<err, fatal>>
    /\ UNCHANGED <<histVars, controlPlane, remoteClusters, mainVars, vpcVars, revision, action, answers,
                   accountID, vpcID, subnet1, subnet2, subnetIDs, securityGroupIDs, selectedSubnets,
                   routeTableID, clusterInput, cidx, subnetAz>>

AttachInternetGateway_Rollback ==
    /\ pc = "AttachInternetGateway"
    /\ \E ok \in BOOLEAN :
         /\ IF ~ok
            THEN /\ calls' = calls \o <<Call("AttachInternetGateway", igwID, FALSE, <<vpcID>>),
                                        Call("DeleteInternetGateway", igwID, TRUE, <<>>)>>
                 /\ LogFatalf("Error creating Internet Gateway",
                              "AttachInternetGateway failed")
                 /\ igwID' = ""
                 /\ resources' = [r \in DOMAIN resources \ {igwID} |-> resources[r]]
            ELSE /\ Issue("AttachInternetGateway", igwID, ok, <<vpcID>>)
                 /\ resources' = [resources EXCEPT ![igwID].attachedTo = vpcID]
                 /\ pc' = "CreateRouteTable"
                 /\ UNCHANGED <<igwID, err, fatal>>
    /\ UNCHANGED <<histVars, controlPlane, remoteClusters, mainVars, vpcVars, revision, action, answers,
                   accountID, vpcID, subnet1, subnet2, subnetIDs, securityGroupIDs, selectedSubnets,
                   routeTableID, clusterInput, cidx, subnetAz>>

\* CreateInternetGateway: the attach call and the return to main; a failure
\* returns "" and leaves the gateway created
AttachInternetGateway ==
    /\ pc = "AttachInternetGateway"
    /\ \E ok \in BOOLEAN :
         /\ Issue("AttachInternetGateway", igwID, ok, <<vpcID>>)
         /\ IF ~ok
            THEN /\ LogFatalf("Error creating Internet Gateway",
                              "AttachInternetGateway failed")
                 /\ igwID' = ""
                 /\ UNCHANGED resources
            ELSE /\ resources' = [resources EXCEPT ![igwID].attachedTo = vpcID]
                 /\ pc' = "CreateRouteTable"
                 /\ UNCHANGED <<igwID, err, fatal>>
    /\ UNCHANGED <<histVars, controlPlane, remoteClusters, mainVars, vpcVars, revision, action, answers,
                   accountID, vpcID, subnet1, subnet2, subnetIDs, securityGroupIDs, selectedSubnets,
                   routeTableID, clusterInput, cidx, subnetAz>>

\* CreateRouteTable(region, vpcID, "EKS-Route-Table")
CreateRouteTable ==
    /\ pc = "CreateRouteTable"
    /\ \E ok \in BOOLEAN :
         /\ Issue("CreateRouteTable", IF ok THEN NewId("rtb") ELSE "", ok, <<vpcID>>)
         /\ IF ~ok
            THEN /\ LogFatalf("Error creating Route Table", "CreateRouteTable failed")
                 /\ UNCHANGED <<routeTableID, resources>>
            ELSE /\ routeTableID' = NewId("rtb")
                 /\ resources' = resources @@
                       (NewId("rtb") :> Resource("rtb", vpcID, "", "",
                                                 CreateRouteTableTags("EKS-Route-Table")))
                 /\ pc' = "CreateRoute"
                 /\ UNCHANGED <<err, fatal>>
    /\ UNCHANGED <<histVars, controlPlane, remoteClusters, mainVars, vpcVars, revision, action, answers,
                   accountID, vpcID, subnet1, subnet2, subnetIDs, securityGroupIDs, selectedSubnets,
                   igwID, clusterInput, cidx, subnetAz>>

\* CreateRoute(region, routeTableID, "0.0.0.0/0", igwID): main drops the error
CreateRoute ==
    /\ pc = "CreateRoute"
    /\ \E ok \in BOOLEAN :
         /\ Issue("CreateRoute", routeTableID, ok, <<DefaultRouteCidr, igwID>>)
         /\ resources' = IF ok
                         THEN [resources EXCEPT ![routeTableID].routes =
                                                   @ \cup {<<DefaultRouteCidr, igwID>>}]
                         ELSE resources
    /\ pc' = "AssociateRouteTable1"
    /\ UNCHANGED <<err, fatal>>
    /\ UNCHANGED <<histVars, controlPlane, remoteClusters, mainVars, vpcVars, revision, action, answers,
                   accountID, vpcID, subnet1, subnet2, subnetIDs, securityGroupIDs, selectedSubnets,
                   igwID, routeTableID, clusterInput, cidx, subnetAz>>

\* AssociateRouteTable(region, routeTableID, subnetID): main drops the error
AssociateRouteTable(k, subnetID, next) ==
    /\ pc = "AssociateRouteTable" \o ToString(k)
    /\ \E ok \in BOOLEAN :
         /\ Issue("AssociateRouteTable", routeTableID, ok, <<subnetID>>)
         /\ resources' = IF ok
                         THEN [resources EXCEPT ![routeTableID].assocs = @ \cup {subnetID}]
                         ELSE resources
    /\ pc' = next
    /\ UNCHANGED <<err, fatal>>
    /\ UNCHANGED <<histVars, controlPlane, remoteClusters, mainVars, vpcVars, revision, action, answers,
                   accountID, vpcID, subnet1, subnet2, subnetIDs, securityGroupIDs, selectedSubnets,
                   igwID, routeTableID, clusterInput, cidx, subnetAz>>

AssociateRouteTable1 == AssociateRouteTable(1, subnet1, "AssociateRouteTable2")
AssociateRouteTable2 == AssociateRouteTable(2, subnet2, "CreateSecurityGroup")

\* CreateSecurityGroup(region, vpcID, "EKS-SG", "EKS Security Group")
CreateSecurityGroup ==
    /\ pc = "CreateSecurityGroup"
    /\ \E ok \in BOOLEAN :
         /\ Issue("CreateSecurityGroup", IF ok THEN NewId("sg") ELSE "", ok,
                  <<vpcID, SgName, "EKS Security Group">>)
         /\ IF ~ok
            THEN /\ LogFatalf("Error creating Security Group", "CreateSecurityGroup failed")
                 /\ UNCHANGED <<securityGroupIDs, resources>>
            ELSE /\ securityGroupIDs' = <<NewId("sg")>>
                 /\ resources' = resources @@
                       (NewId("sg") :> Resource("sg", vpcID, "", "",
                                                CreateSecurityGroupTags(SgName)))
                 /\ pc' = "CreateEKSCluster"
                 /\ UNCHANGED <<err, fatal>>
    /\ UNCHANGED <<histVars, controlPlane, remoteClusters, mainVars, vpcVars, revision, action, answers,
                   accountID, vpcID, subnet1, subnet2, subnetIDs, selectedSubnets, igwID,
                   routeTableID, clusterInput, cidx, subnetAz>>

(***************************************************************************)
(* The reuse branch of the earlier main: the network is chosen from what   *)
(* the account already has.                                                *)
(***************************************************************************)
ZoneSuffixes == {"a", "b"}
\* the elements of list at the positions chosen, in the order of the options
Pick(list, chosen) ==
    LET F[i \in 0..Len(list)] ==
            IF i = 0 THEN <<>>
            ELSE IF i \in chosen THEN Append(F[i - 1], list[i]) ELSE F[i - 1]
    IN F[Len(list)]
Range(seq) == {seq[i] : i \in DOMAIN seq}

\* ListVPCs: the VPCs of the account, those the tool made included
VpcOptions ==
    {pre \o IdsIn("vpc", DOMAIN resources) : pre \in PreExisting("vpc", MaxVpc)}

\* ListSubnets(vpcID) of the reuse branch
SubnetOptions(vpc) ==
    IF Tracked(vpc) THEN {InVpc("subnet", vpc)} ELSE PreExisting("subnet", MaxSubnet)

\* the availability zones DescribeSubnets reports for the subnets listed
ZoneOptions(options) ==
    {az \in [Range(options) -> {region \o z : z \in ZoneSuffixes}] :
        \A r \in Range(options) :
           r \in DOMAIN resources => az[r] = resources[r].az}

\* ListSecurityGroups(vpcID) of the reuse branch
SecurityGroupOptions(vpc) ==
    IF Tracked(vpc)
    THEN {<<DefaultSecurityGroup(vpc)>> \o InVpc("sg", vpc)}
    ELSE PreExisting("sg", MaxSg)

\* selectExistingResource("VPC", ListVPCs)
SelectVPC ==
    /\ pc = "SelectVPC"
    /\ \E ok \in BOOLEAN :
         /\ Issue("DescribeVpcs", region, ok, <<>>)
         /\ IF ~ok
            THEN /\ LogFatalf("Error fetching VPC", "DescribeVpcs failed")
                 /\ UNCHANGED vpcID
            ELSE \E options \in VpcOptions :
                   \/ /\ options # <<>>
                      /\ \E i \in DOMAIN options : vpcID' = options[i]
                      /\ pc' = "SelectSubnets"
                      /\ UNCHANGED <<err, fatal>>
                   \/ /\ LogFatalf("Error selecting VPC", "interrupt")
                      /\ UNCHANGED vpcID
    /\ UNCHANGED <<histVars, controlPlane, remoteClusters, mainVars, vpcVars, revision, action, answers, accountID, 
                   subnet1, subnet2, subnetIDs, securityGroupIDs, selectedSubnets,
                   igwID, routeTableID, clusterInput, cidx, resources, subnetAz>>

TooFewSubnets_One(selected) == Len(selected) < 1
\* if len(selectedSubnets) < 2
TooFewSubnets(selected) == Len(selected) < 2

\* selectMultipleSubnets(region, vpcID) and the check of main on its result
SelectSubnets ==
    /\ pc = "SelectSubnets"
    /\ \E ok \in BOOLEAN :
         /\ Issue("DescribeSubnets", vpcID, ok, <<>>)
         /\ IF ~ok
            THEN /\ LogFatalf("Error selecting subnets", "DescribeSubnets failed")
                 /\ UNCHANGED <<subnetIDs, selectedSubnets, subnetAz>>
            ELSE \E options \in SubnetOptions(vpcID) :
                 \E az \in ZoneOptions(options) :
                   /\ subnetAz' = az
                   /\ \/ \E chosen \in SUBSET DOMAIN options :
                           /\ selectedSubnets' = Pick(options, chosen)
                           /\ IF TooFewSubnets(Pick(options, chosen))
                              THEN /\ LogFatalf("At least two subnets are required for EKS.", "")
                                   /\ UNCHANGED subnetIDs
                              ELSE /\ subnetIDs' = Pick(options, chosen)
                                   /\ pc' = "SelectSecurityGroups"
                                   /\ UNCHANGED <<err, fatal>>
                      \/ /\ LogFatalf("Error selecting subnets", "interrupt")
                         /\ UNCHANGED <<subnetIDs, selectedSubnets>>
    /\ UNCHANGED <<histVars, controlPlane, remoteClusters, mainVars, vpcVars, revision, action, answers, accountID, 
                   vpcID, subnet1, subnet2, securityGroupIDs, igwID,
                   routeTableID, clusterInput, cidx, resources>>

\* selectMultipleSecurityGroups(region, vpcID)
SelectSecurityGroups ==
    /\ pc = "SelectSecurityGroups"
    /\ \E ok \in BOOLEAN :
         /\ Issue("DescribeSecurityGroups", vpcID, ok, <<>>)
         /\ IF ~ok
            THEN /\ LogFatalf("Error selecting security groups",
                              "DescribeSecurityGroups failed")
                 /\ UNCHANGED securityGroupIDs
            ELSE \E options \in SecurityGroupOptions(vpcID) :
                   \/ /\ \E chosen \in SUBSET DOMAIN options :
                           securityGroupIDs' = Pick(options, chosen)
                      /\ pc' = "CreateEKSCluster"
                      /\ UNCHANGED <<err, fatal>>
                   \/ /\ LogFatalf("Error selecting security groups", "interrupt")
                      /\ UNCHANGED securityGroupIDs
    /\ UNCHANGED <<histVars, controlPlane, remoteClusters, mainVars, vpcVars, revision, action, answers, accountID, 
                   vpcID, subnet1, subnet2, subnetIDs, selectedSubnets,
                   igwID, routeTableID, clusterInput, cidx, resources, subnetAz>>

(***************************************************************************)
(* The cluster and its addons.                                             *)
(***************************************************************************)
\* roleArn := fmt.Sprintf("arn:aws:iam::%s:role/EKSClusterRole", accountID)
RoleArn(account) == "arn:aws:iam::" \o account \o ":role/EKSClusterRole"

CreateEKSClusterTags_NoVpcId(vpc) ==
    ("CreatedBy" :> ProvenanceValue) @@ ("HostingVPC" :> "isolated") @@ ("VpcId" :> "")
\* CreateEKSCluster: tags
CreateEKSClusterTags(vpc) ==
    ("CreatedBy" :> ProvenanceValue) @@ ("HostingVPC" :> "isolated") @@ ("VpcId" :> vpc)

\* the tags of CreateEKSCluster(..., useExistingResources, vpcID) of the earlier
\* main: the classification and the back-reference only for a new network
EarlierCreateEKSClusterTags(useExisting, vpc) ==
    IF useExisting
    THEN ("CreatedBy" :> ProvenanceValue)
    ELSE ("CreatedBy" :> ProvenanceValue) @@ ("HostingVPC" :> "isolated")
            @@ ("VpcId" :> vpc)

CreateClusterInput_NoStorage(tags) ==
    [Name |-> clusterName, Version |-> k8sVersion, RoleArn |-> RoleArn(accountID),
     SubnetIds |-> subnetIDs, SecurityGroupIds |-> securityGroupIDs, Tags |-> tags,
     ComputeConfig |-> autoMode, ElasticLoadBalancing |-> autoMode,
     BlockStorage |-> FALSE]

\* CreateEKSCluster: clusterInput
CreateClusterInput(tags) ==
    [Name |-> clusterName, Version |-> k8sVersion, RoleArn |-> RoleArn(accountID),
     SubnetIds |-> subnetIDs, SecurityGroupIds |-> securityGroupIDs, Tags |-> tags,
     ComputeConfig |-> autoMode, ElasticLoadBalancing |-> autoMode,
     BlockStorage |-> autoMode]

\* what a create run leaves behind when its cluster is made: the cluster, its
\* VPC, whether the VPC was chosen from the existing ones, the resources the
\* run made with their kinds, and whether every call before the cluster
\* succeeded (the role may have existed)
RunRecord ==
    LET ids == IF useExistingResources
               THEN {}
               ELSE {vpcID, subnet1, subnet2, igwID, routeTableID}
                       \cup Range(securityGroupIDs)
    IN [cluster |-> clusterName,
        vpc |-> vpcID,
        reused |-> useExistingResources,
        made |-> [r \in ids |-> resources[r].kind],
        clean |-> \A i \in DOMAIN calls : calls[i].ok \/ calls[i].op = "CreateRole"]

\* CreateEKSCluster(region, clusterName, accountID, subnets, securityGroups,
\* k8sVersion, ...); the service refuses a name that is taken
CreateEKSCluster ==
    LET tags == IF revision = "main.go"
                THEN CreateEKSClusterTags(vpcID)
                ELSE EarlierCreateEKSClusterTags(useExistingResources, vpcID)
    IN
    /\ pc = "CreateEKSCluster"
    /\ clusterInput' = CreateClusterInput(tags)
    /\ \E ok \in BOOLEAN :
         /\ ok => clusterName \notin DOMAIN remoteClusters
         /\ Issue("CreateCluster", clusterName, ok, <<>>)
         /\ IF ~ok
            THEN /\ LogFatalf("Error creating EKS Cluster", "failed to create EKS cluster")
                 /\ UNCHANGED <<remoteClusters, runLog>>
            ELSE /\ remoteClusters' = remoteClusters @@ (clusterName :> tags)
                 /\ runLog' = Append(runLog, RunRecord)
                 /\ pc' = IF revision = "main.go" THEN "PromptAddons" ELSE "done"
                 /\ UNCHANGED <<err, fatal>>
    /\ UNCHANGED <<controlPlane, versions, entered, mainVars, vpcVars, revision, action, answers, accountID, 
                   vpcID, subnet1, subnet2, subnetIDs, securityGroupIDs,
                   selectedSubnets, igwID, routeTableID, cidx, resources, subnetAz>>

\* the addons prompt (var createAddons = true; the prompt has no Default field)
PromptAddons ==
    /\ pc = "PromptAddons"
    /\ \/ /\ \E input \in ConfirmInputs :
               LET answer == ConfirmAnswer(input, FALSE) IN
               /\ entered' = [entered EXCEPT !["createAddons"] = input]
               /\ createAddons' = answer
               /\ pc' = IF answer THEN "InstallAddons" ELSE "done"
          /\ cidx' = 1
          /\ UNCHANGED <<err, fatal>>
       \/ /\ LogFatalf("Error", "interrupt")
          /\ createAddons' = TRUE
          /\ UNCHANGED <<cidx, entered>>
    /\ UNCHANGED <<controlPlane, versions, runLog, remoteClusters, mainVars, vpcVars, revision, action, clusterName, latestVersion, k8sVersion,
                   autoMode, useExistingResources, accountID, 
                   vpcID, subnet1, subnet2, subnetIDs, securityGroupIDs,
                   selectedSubnets, igwID, routeTableID, clusterInput, resources, subnetAz, calls>>

Addons_NoCni == <<"coredns", "kube-proxy">>

\* InstallAddons: addons
Addons == <<"coredns", "kube-proxy", "vpc-cni">>

\* InstallAddons(region, clusterName): CreateAddon for the addon at cidx
InstallAddons ==
    /\ pc = "InstallAddons"
    /\ \E ok \in BOOLEAN :
         /\ Issue("CreateAddon", clusterName, ok, <<Addons[cidx]>>)
         /\ IF ~ok
            THEN /\ LogFatalf("Error installing addons", "failed to install addon")
                 /\ UNCHANGED cidx
            ELSE /\ cidx' = cidx + 1
                 /\ pc' = IF cidx + 1 <= Len(Addons) THEN "InstallAddons" ELSE "done"
                 /\ UNCHANGED <<err, fatal>>
    /\ UNCHANGED <<histVars, controlPlane, remoteClusters, mainVars, vpcVars, revision, action, answers, accountID, 
                   vpcID, subnet1, subnet2, subnetIDs, securityGroupIDs,
                   selectedSubnets, igwID, routeTableID, clusterInput, resources, subnetAz>>

Next ==
    \/ PromptRegion
    \/ ListEKSClusters
    \/ SelectCluster
    \/ CheckCreatedBy
    \/ WarningPrompt
    \/ CheckHostingVPC
    \/ ResolveVpcId
    \/ AskVpcDelete
    \/ DeleteClusterCascade
    \/ DeleteClusterOnly
    \/ DeleteClusterLast
    \/ DeleteVPC
    \/ AskAction
    \/ CreatePromptRegion
    \/ PromptCluster
    \/ FetchLatestVersion
    \/ PromptK8sVersion
    \/ PromptAutoMode
    \/ PromptUseExisting
    \/ GetAWSAccountDetails
    \/ CreateRole
    \/ AttachRolePolicy
    \/ SelectVPC
    \/ SelectSubnets
    \/ SelectSecurityGroups
    \/ CreateVPC
    \/ CreateSubnet1
    \/ CreateSubnet2
    \/ EnableAutoAssignPublicIP
    \/ CreateInternetGateway
    \/ AttachInternetGateway
    \/ CreateRouteTable
    \/ CreateRoute
    \/ AssociateRouteTable1
    \/ AssociateRouteTable2
    \/ CreateSecurityGroup
    \/ CreateEKSCluster
    \/ PromptAddons
    \/ InstallAddons

Spec == Init /\ [][Next]_vars

(***************************************************************************)
(* getLatestVersion on its own: every list of up to MaxVersions version    *)
(* strings is an input, and the one step applies the function to it.       *)
(***************************************************************************)
VersionStrings == {V128, V19, V110, V127}
VersionLists ==
    UNION {[1..n -> VersionStrings] : n \in 1..MaxVersions}

InitVersions ==
    /\ remoteClusters = EmptyTags
    /\ revision = "main.go"
    /\ resources = EmptyTags
    /\ subnetAz = EmptyTags
    /\ runLog = <<>>
    /\ controlPlane = NoControlPlane
    /\ pc = "getLatestVersion"
    /\ action = ""
    /\ clusterName = ""
    /\ latestVersion = <<>>
    /\ k8sVersion = <<>>
    /\ autoMode = FALSE
    /\ useExistingResources = FALSE
    /\ createAddons = FALSE
    /\ accountID = ""
    /\ vpcID = ""
    /\ subnet1 = ""
    /\ subnet2 = ""
    /\ subnetIDs = <<>>
    /\ securityGroupIDs = <<>>
    /\ selectedSubnets = <<>>
    /\ igwID = ""
    /\ routeTableID = ""
    /\ clusterInput = NoClusterInput
    /\ cidx = 0
    /\ versions \in VersionLists
    /\ entered = NothingEntered
    /\ region = ""
    /\ clusters = <<>>
    /\ selectedCluster = ""
    /\ isCreatedByTool = FALSE
    /\ confirmDelete = FALSE
    /\ isIsolatedVpc = FALSE
    /\ vpcId = ""
    /\ confirmDeleteVPC = FALSE
    /\ eniOutput = <<>>
    /\ igws = <<>>
    /\ subnets = <<>>
    /\ routeTables = <<>>
    /\ securityGroups = <<>>
    /\ idx = 0
    /\ rtbOutput = <<>>
    /\ sgOutput = <<>>
    /\ calls = <<>>
    /\ err = ""
    /\ fatal = ""

\* getLatestVersion(versions): sort.Slice sorts the slice in place
ApplyGetLatestVersion ==
    /\ pc = "getLatestVersion"
    /\ versions' = SortDescending(versions)
    /\ latestVersion' = getLatestVersion(versions)
    /\ pc' = "done"
    /\ UNCHANGED <<controlPlane, remoteClusters, mainVars, vpcVars, revision, action,
                   clusterName, k8sVersion, autoMode, useExistingResources,
                   createAddons, accountID, netIds, clusterInput, cidx,
                   resources, subnetAz, runLog, entered, calls, err, fatal>>

NextVersions == ApplyGetLatestVersion

SpecVersions == InitVersions /\ [][NextVersions]_vars

(***************************************************************************)
(* Runs in sequence on one account whose only cluster at the start is one  *)
(* without tags that the tool did not make: after a create run has made a  *)
(* cluster the operator starts the tool again, in either revision; the     *)
(* remote state is what the earlier runs left.                             *)
(***************************************************************************)
ForeignCluster == "legacy"

InitRuns ==
    /\ remoteClusters = [c \in {ForeignCluster} |-> EmptyTags]
    /\ revision \in Revisions
    /\ resources = EmptyTags
    /\ subnetAz = EmptyTags
    /\ runLog = <<>>
    /\ controlPlane = NoControlPlane
    /\ pc = "AskAction"
    /\ RunStart

\* the next start of the tool after a create run that made its cluster
NextRun ==
    /\ pc = "done"
    /\ action = "Create Cluster"
    /\ pc' = "AskAction"
    /\ revision' \in Revisions
    /\ action' = ""
    /\ clusterName' = ""
    /\ latestVersion' = <<>>
    /\ k8sVersion' = <<>>
    /\ autoMode' = FALSE
    /\ useExistingResources' = FALSE
    /\ createAddons' = FALSE
    /\ accountID' = ""
    /\ vpcID' = ""
    /\ subnet1' = ""
    /\ subnet2' = ""
    /\ subnetIDs' = <<>>
    /\ securityGroupIDs' = <<>>
    /\ selectedSubnets' = <<>>
    /\ igwID' = ""
    /\ routeTableID' = ""
    /\ clusterInput' = NoClusterInput
    /\ cidx' = 0
    /\ versions' = <<>>
    /\ entered' = NothingEntered
    /\ region' = ""
    /\ clusters' = <<>>
    /\ selectedCluster' = ""
    /\ isCreatedByTool' = FALSE
    /\ confirmDelete' = FALSE
    /\ isIsolatedVpc' = FALSE
    /\ vpcId' = ""
    /\ confirmDeleteVPC' = FALSE
    /\ eniOutput' = <<>>
    /\ igws' = <<>>
    /\ subnets' = <<>>
    /\ routeTables' = <<>>
    /\ securityGroups' = <<>>
    /\ idx' = 0
    /\ rtbOutput' = <<>>
    /\ sgOutput' = <<>>
    /\ calls' = <<>>
    /\ err' = ""
    /\ fatal' = ""
    /\ UNCHANGED <<remoteClusters, resources, subnetAz, runLog, controlPlane>>

NextRuns == Next \/ NextRun

SpecRuns == InitRuns /\ [][NextRuns]_vars

(***************************************************************************)
(* The run together with what EKS does on its own.  eks.DeleteCluster      *)
(* returns when the deletion is initiated; until the service completes it  *)
(* the control plane of the cluster is still running and keeps network     *)
(* interfaces in the subnets of the cluster's VPC.  The tool does not wait *)
(* for the completion, so these steps interleave with DeleteVPC.           *)
(***************************************************************************)
programVars == <<remoteClusters, pc, mainVars, vpcVars, createVars, histVars,
                 calls, err, fatal>>

\* the control plane of a cluster that is being deleted places an interface
\* into the VPC of the cluster
ControlPlaneAttachesInterface ==
    /\ \E c \in controlPlane.deleting : \E i \in 1..MaxCpEni :
         /\ "VpcId" \in DOMAIN remoteClusters[c]
         /\ \A e \in controlPlane.enis : e.id # Id("eni-cp", i)
         /\ controlPlane' =
               [controlPlane EXCEPT !.enis =
                   @ \cup {[id |-> Id("eni-cp", i), cluster |-> c,
                            vpc |-> remoteClusters[c]["VpcId"]]}]
    /\ UNCHANGED programVars

\* the service completes a deletion: the control plane and its interfaces
\* are gone
ClusterDeletionCompletes ==
    /\ \E c \in controlPlane.deleting :
         controlPlane' = [deleting |-> controlPlane.deleting \ {c},
                          enis |-> {e \in controlPlane.enis : e.cluster # c}]
    /\ UNCHANGED programVars

NextAsync == Next \/ ControlPlaneAttachesInterface \/ ClusterDeletionCompletes

SpecAsync == Init /\ [][NextAsync]_vars

(***************************************************************************)
(* The run under the assumption that every prompt is answered and every    *)
(* gateway call returns: the program is sequential and blocks on each of   *)
(* them, so a step that is possible is eventually taken.                   *)
(***************************************************************************)
SpecLive == Init /\ [][Next]_vars /\ WF_vars(Next)

(***************************************************************************)
(* Vocabulary of the properties: the kinds of call in the trace and the    *)
(* facts of the selected cluster as they are in the remote state.          *)
(***************************************************************************)
EniOps == {"DetachNetworkInterface", "DeleteNetworkInterface"}
IgwOps == {"DetachInternetGateway", "DeleteInternetGateway"}
NetworkMutatingOps ==
    EniOps \cup IgwOps \cup {"DeleteSubnet", "DeleteRouteTable",
                             "DeleteSecurityGroup", "DeleteVpc"}
MutatingOps == NetworkMutatingOps \cup {"DeleteCluster"}
NetworkOps ==
    NetworkMutatingOps \cup {"DescribeNetworkInterfaces", "DescribeVpcs",
                             "DescribeInternetGateways", "DescribeSubnets",
                             "DescribeRouteTables", "DescribeSecurityGroups"}
DeleteVPCPositions ==
    {"DeleteVPC", "DescribeNetworkInterfaces", "DetachNetworkInterface",
     "DeleteNetworkInterface", "DescribeVpcs", "ListInternetGateways",
     "DetachInternetGateway", "DeleteInternetGateway", "ListSubnets",
     "DeleteSubnet", "ListRouteTables", "DescribeRouteTable", "DeleteRouteTable",
     "ListSecurityGroups", "DescribeSecurityGroup", "DeleteSecurityGroup",
     "DeleteVpc"}

CallsOf(ops) == {i \in DOMAIN calls : calls[i].op \in ops}
\* the calls of a delete run (a create run on existing resources lists them too)
TeardownCalls(ops) == IF action = "Delete Cluster" THEN CallsOf(ops) ELSE {}
Selected == selectedCluster \in DOMAIN remoteClusters
HasTagValue(k, v) ==
    /\ Selected
    /\ k \in DOMAIN remoteClusters[selectedCluster]
    /\ remoteClusters[selectedCluster][k] = v
HasProvenance == HasTagValue("CreatedBy", "EKS-Sandbox-Tool")
TaggedIsolated == HasTagValue("HostingVPC", "isolated")
NoCallFailed == \A i \in DOMAIN calls : calls[i].ok

(***************************************************************************)
(* C1. On a cluster that lacks the tag CreatedBy=EKS-Sandbox-Tool, when    *)
(* the operator has not confirmed the danger prompt no mutating call       *)
(* (cluster, interface, gateway, subnet, route table, security group, VPC) *)
(* is in the trace: every delete call on such a cluster comes after an     *)
(* affirmative confirmation.                                               *)
(***************************************************************************)
C1_NoDeleteWithoutConfirmation ==
    (Selected /\ ~HasProvenance /\ ~confirmDelete) => CallsOf(MutatingOps) = {}

\* the operator declined and the run returned
C1_Witness ==
    /\ pc = "done"
    /\ Selected /\ ~HasProvenance /\ ~confirmDelete
    /\ TaggedIsolated
    /\ Len(calls) = 2

(***************************************************************************)
(* C2. When cascade is not selected (the cluster is not tagged isolated,   *)
(* or the operator declined the cascade prompt) no network-level detach or *)
(* delete call is issued.                                                  *)
(***************************************************************************)
C2_NoNetworkCallWithoutCascade ==
    (~TaggedIsolated \/ ~confirmDeleteVPC) => CallsOf(NetworkMutatingOps) = {}

\* an isolated cluster deleted alone, the operator having declined the cascade
C2_Witness ==
    /\ pc = "done"
    /\ TaggedIsolated /\ ~confirmDeleteVPC
    /\ \E i \in DOMAIN calls : calls[i].op = "DeleteCluster" /\ calls[i].ok

(***************************************************************************)
(* C3. DeleteVPC is invoked (the run is inside it, or one of its calls is  *)
(* in the trace) only if the tag HostingVPC of the selected cluster is     *)
(* exactly "isolated" and the operator answered yes to the cascade prompt. *)
(***************************************************************************)
C3_CascadeOnlyIfIsolatedAndConfirmed ==
    (pc \in DeleteVPCPositions \/ TeardownCalls(NetworkOps) # {})
        => (HasTagValue("HostingVPC", "isolated") /\ pc # "AskVpcDelete"
            /\ confirmDeleteVPC)

\* the VPC of an isolated cluster was deleted
C3_Witness ==
    /\ pc = "done"
    /\ \E i \in DOMAIN calls : calls[i].op = "DeleteVpc" /\ calls[i].ok

\* a cluster whose HostingVPC tag has another value ends without cascade
C3_WitnessOtherValue ==
    /\ pc = "done"
    /\ HasTagValue("HostingVPC", "shared")
    /\ HasTagValue("VpcId", "vpc-1")

(***************************************************************************)
(* C4. A run on a selected cluster that passes the provenance gate and in  *)
(* which no gateway call fails issues the cluster delete call exactly once *)
(* for the selected cluster, isolated or not, cascade or not.              *)
(***************************************************************************)
C4_ClusterDeletedExactlyOnce ==
    (pc = "done" /\ Selected /\ (HasProvenance \/ confirmDelete) /\ NoCallFailed)
        => /\ Cardinality(CallsOf({"DeleteCluster"})) = 1
           /\ \A i \in CallsOf({"DeleteCluster"}) : calls[i].arg = selectedCluster

(***************************************************************************)
(* C5. No delete-subnet call and no detach- or delete-internet-gateway     *)
(* call is in the trace before every enumerated network interface has been *)
(* detached and deleted.                                                   *)
(***************************************************************************)
EniDone(k, j) ==
    \E a \in 1..(j - 1) :
       /\ calls[a] = Call("DetachNetworkInterface", eniOutput[k].NetworkInterfaceId, TRUE, <<>>)
       /\ \E b \in (a + 1)..(j - 1) :
             calls[b] = Call("DeleteNetworkInterface", eniOutput[k].NetworkInterfaceId, TRUE, <<>>)

C5_InterfacesBeforeGatewaysAndSubnets ==
    \A j \in CallsOf(IgwOps \cup {"DeleteSubnet"}) :
        \A k \in DOMAIN eniOutput : EniDone(k, j)

\* a subnet and a gateway were deleted in a VPC that had two interfaces
C5_Witness ==
    /\ Len(eniOutput) = 2
    /\ CallsOf({"DeleteSubnet"}) # {}
    /\ CallsOf(IgwOps) # {}

(***************************************************************************)
(* C6. The mutating calls of DeleteVPC are in the fixed order interfaces,  *)
(* gateways, subnets, route tables, security groups, VPC; the delete-VPC   *)
(* call is the last call of the run of DeleteVPC (no call of DeleteVPC     *)
(* follows it; what main calls after DeleteVPC returned is the one cluster *)
(* delete of the earlier main) and every call before it succeeded.         *)
(***************************************************************************)
Rank(op) ==
    CASE op \in EniOps -> 1
      [] op \in IgwOps -> 2
      [] op = "DeleteSubnet" -> 3
      [] op = "DeleteRouteTable" -> 4
      [] op = "DeleteSecurityGroup" -> 5
      [] op = "DeleteVpc" -> 6

C6_FixedTeardownOrder ==
    /\ \A i, j \in CallsOf(NetworkMutatingOps) :
          i < j => Rank(calls[i].op) <= Rank(calls[j].op)
    /\ \A j \in CallsOf({"DeleteVpc"}) :
          /\ \A n \in CallsOf(NetworkOps) : n <= j
          /\ \A i \in (j + 1)..Len(calls) :
                revision = "reuse" /\ i = j + 1 /\ calls[i].op = "DeleteCluster"
          /\ \A i \in 1..(j - 1) : calls[i].ok

\* a full teardown that touched every kind of resource
C6_Witness ==
    /\ pc = "done"
    /\ \A r \in 1..6 : \E i \in DOMAIN calls : calls[i].op \in NetworkMutatingOps
                                                /\ Rank(calls[i].op) = r

(***************************************************************************)
(* C7. A route table with at least one association whose Main flag is true *)
(* is never passed to the delete-route-table operation.                    *)
(***************************************************************************)
HasMainAssociation(associations) ==
    \E k \in DOMAIN associations : associations[k] = "true"

C7_MainRouteTableNeverDeleted ==
    \A i \in CallsOf({"DeleteRouteTable"}) : ~HasMainAssociation(calls[i].obs)

\* of two route tables the first was deleted and the second, whose main
\* association is not its first, was skipped
C7_Witness ==
    /\ pc = "ListSecurityGroups"
    /\ Len(routeTables) = 2
    /\ rtbOutput = <<[Associations |-> <<"false", "true">>]>>
    /\ Cardinality(CallsOf({"DeleteRouteTable"})) = 1

(***************************************************************************)
(* C8. A security group named "default" is never passed to the             *)
(* delete-security-group operation.                                        *)
(***************************************************************************)
C8_DefaultSecurityGroupNeverDeleted ==
    \A i \in CallsOf({"DeleteSecurityGroup"}) :
        \A k \in DOMAIN calls[i].obs : calls[i].obs[k] # "default"

\* of two security groups one was deleted and the default one was skipped
C8_Witness ==
    /\ pc = "DeleteVpc"
    /\ Len(securityGroups) = 2
    /\ sgOutput = <<[GroupName |-> "default"]>>
    /\ Cardinality(CallsOf({"DeleteSecurityGroup"})) = 1

(***************************************************************************)
(* C9. Once a call of DeleteVPC fails it is the last call of the run: no   *)
(* further call is issued, the delete-VPC call in particular, main stops   *)
(* with the error DeleteVPC returned, which names the failed operation,    *)
(* and nothing is issued afterwards to undo or redo what was deleted.      *)
(***************************************************************************)
ExpectedError(c) ==
    CASE c.op = "DescribeNetworkInterfaces" -> "unable to describe network interfaces"
      [] c.op = "DetachNetworkInterface" -> "unable to detach network interface"
      [] c.op = "DeleteNetworkInterface" -> "unable to delete network interface"
      [] c.op = "DescribeVpcs" -> "unable to describe VPC"
      [] c.op = "DescribeInternetGateways" -> "unable to list Internet Gateways"
      [] c.op = "DetachInternetGateway" -> "unable to detach Internet Gateway"
      [] c.op = "DeleteInternetGateway" -> "unable to delete Internet Gateway"
      [] c.op = "DescribeSubnets" -> "unable to list subnets"
      [] c.op = "DeleteSubnet" -> "unable to delete subnet"
      [] c.op = "DescribeRouteTables" /\ c.arg = vpcId -> "unable to list route tables"
      [] c.op = "DescribeRouteTables" /\ c.arg # vpcId -> "unable to describe route table"
      [] c.op = "DeleteRouteTable" -> "unable to delete route table"
      [] c.op = "DescribeSecurityGroups" /\ c.arg = vpcId -> "unable to list security groups"
      [] c.op = "DescribeSecurityGroups" /\ c.arg # vpcId -> "unable to describe security group"
      [] c.op = "DeleteSecurityGroup" -> "unable to delete security group"
      [] c.op = "DeleteVpc" -> "unable to delete VPC"

FailedNetworkCalls == {i \in TeardownCalls(NetworkOps) : ~calls[i].ok}

C9_FailureAbortsTeardown ==
    /\ [](\A i \in FailedNetworkCalls :
             /\ i = Len(calls)
             /\ pc = "fatal"
             /\ fatal = "Error deleting VPC"
             /\ err = ExpectedError(calls[i]))
    /\ [][FailedNetworkCalls # {} => calls' = calls]_vars

\* the teardown stopped at a failed subnet delete after interfaces and a
\* gateway had been deleted
C9_Witness ==
    /\ pc = "fatal"
    /\ \E i \in FailedNetworkCalls : calls[i].op = "DeleteSubnet"
    /\ \E i \in DOMAIN calls : calls[i].op = "DeleteNetworkInterface" /\ calls[i].ok
    /\ \E i \in DOMAIN calls : calls[i].op = "DeleteInternetGateway" /\ calls[i].ok

(***************************************************************************)
(* C10. In a cascade teardown of the current main (src/main.go) the        *)
(* cluster delete call has been issued and has succeeded before DeleteVPC  *)
(* starts; after a failed cluster delete no network-level call is issued.  *)
(* The earlier main kept in the repository calls DeleteVPC first; its      *)
(* delete case is not the code this property is about.                     *)
(***************************************************************************)
C10_ClusterDeletedBeforeNetwork ==
    revision = "main.go" =>
       /\ (pc \in DeleteVPCPositions \/ TeardownCalls(NetworkOps) # {}) =>
             \E d \in CallsOf({"DeleteCluster"}) :
                /\ calls[d].ok
                /\ calls[d].arg = selectedCluster
                /\ \A n \in TeardownCalls(NetworkOps) : d < n
       /\ (\E d \in CallsOf({"DeleteCluster"}) : ~calls[d].ok)
             => TeardownCalls(NetworkOps) = {}

\* the network teardown of the current main is under way after the cluster
\* delete
C10_Witness ==
    /\ revision = "main.go"
    /\ pc = "DescribeVpcs"
    /\ \E d \in CallsOf({"DeleteCluster"}) : calls[d].ok
    /\ CallsOf(EniOps) # {}

\* a cascade run of the current main stopped at a failed cluster delete
C10_WitnessFailure ==
    /\ revision = "main.go"
    /\ pc = "fatal"
    /\ confirmDeleteVPC
    /\ \E d \in CallsOf({"DeleteCluster"}) : ~calls[d].ok

(***************************************************************************)
(* Vocabulary of the properties of the create run.                         *)
(***************************************************************************)
CreateRun == action = "Create Cluster"
NetworkCreateOps ==
    {"CreateVpc", "CreateSubnet", "ModifySubnetAttribute", "CreateInternetGateway",
     "AttachInternetGateway", "CreateRouteTable", "CreateRoute",
     "AssociateRouteTable", "CreateSecurityGroup"}
\* the calls that return the id of a new EC2 resource
ResourceCreateOps ==
    {"CreateVpc", "CreateSubnet", "CreateInternetGateway", "CreateRouteTable",
     "CreateSecurityGroup"}
ClusterCalls == CallsOf({"CreateCluster"})
\* the positions of a run on existing resources up to the subnet selection
BeforeSubnetsChosen ==
    {"GetAWSAccountDetails", "CreateRole", "AttachRolePolicy", "SelectVPC",
     "SelectSubnets"}
\* the failed create-role calls the gateway answered with "already exists"
RoleExistsCalls ==
    {i \in CallsOf({"CreateRole"}) :
        ~calls[i].ok /\ calls[i].obs = <<"EntityAlreadyExists">>}
\* the availability zone of a subnet, as the remote state has it
AzOf(subnet) == IF useExistingResources THEN subnetAz[subnet]
                                        ELSE resources[subnet].az

(***************************************************************************)
(* C11. In a create run on existing network resources in which fewer than  *)
(* two subnets are selected the run fails: it stops at the subnet check    *)
(* and no cluster-creation call is in the trace.                           *)
(***************************************************************************)
C11_TooFewSubnetsAborts ==
    (CreateRun /\ useExistingResources /\ Len(selectedSubnets) < 2)
        => /\ ClusterCalls = {}
           /\ pc \in BeforeSubnetsChosen \cup {"fatal"}

\* one subnet was selected of two listed and the run stopped
C11_Witness ==
    /\ pc = "fatal"
    /\ fatal = "At least two subnets are required for EKS."
    /\ Len(selectedSubnets) = 1
    /\ Cardinality(DOMAIN subnetAz) = 2
    /\ ClusterCalls = {}

(***************************************************************************)
(* C12. Every cluster-creation call, on the create-new path and on the     *)
(* reuse path alike, carries at least two subnet ids that lie in distinct  *)
(* availability zones and at least one security-group id.                  *)
(***************************************************************************)
C12_ClusterHasTwoZonesAndGroup ==
    ClusterCalls # {} =>
        /\ \E a, b \in Range(clusterInput.SubnetIds) : AzOf(a) # AzOf(b)
        /\ Len(clusterInput.SecurityGroupIds) >= 1

(***************************************************************************)
(* C13. When the create-role call fails because the role already exists    *)
(* the run does not abort: the step after it is the attachment of the      *)
(* policies, with no error recorded.                                       *)
(***************************************************************************)
C13_RoleAlreadyExistsTolerated ==
    [][(pc = "CreateRole" /\ RoleExistsCalls' # {})
          => (pc' = "AttachRolePolicy" /\ fatal' = fatal /\ err' = err)]_vars

\* a run that met an existing role attached both policies and created the
\* network and the cluster
C13_Witness ==
    /\ pc = "done"
    /\ RoleExistsCalls # {}
    /\ Cardinality({i \in CallsOf({"AttachRolePolicy"}) : calls[i].ok}) = 2
    /\ \E i \in CallsOf({"CreateVpc"}) : calls[i].ok
    /\ \E i \in ClusterCalls : calls[i].ok

(***************************************************************************)
(* C14. When the create-role call fails for another reason than "already   *)
(* exists", or an attach-role-policy call fails, the create run aborts     *)
(* with the error of the role step: the failed call is the last call of    *)
(* the run and no network or cluster create call is in the trace.          *)
(***************************************************************************)
FailedRoleCalls ==
    {i \in CallsOf({"CreateRole", "AttachRolePolicy"}) :
        ~calls[i].ok /\ i \notin RoleExistsCalls}

C14_RoleFailureAborts ==
    /\ [](\A i \in FailedRoleCalls :
             /\ i = Len(calls)
             /\ pc = "fatal"
             /\ fatal = "Error creating or attaching policies to EKSClusterRole"
             /\ CallsOf(NetworkCreateOps \cup {"CreateCluster"}) = {})
    /\ [][FailedRoleCalls # {} => calls' = calls]_vars

\* the second policy could not be attached
C14_Witness ==
    /\ pc = "fatal"
    /\ \E i \in FailedRoleCalls :
          /\ calls[i].op = "AttachRolePolicy"
          /\ calls[i].obs = <<"arn:aws:iam::aws:policy/AmazonEKSVPCResourceController">>

\* the role could not be created
C14_WitnessCreateRole ==
    /\ pc = "fatal"
    /\ \E i \in FailedRoleCalls : calls[i].op = "CreateRole"

(***************************************************************************)
(* C15. In a create run a failed gateway call, the tolerated "role already *)
(* exists" apart, is the last call of the run and the run has stopped with *)
(* an error: no create-security-group or cluster-creation call follows a   *)
(* failed create-route or associate-route-table call.                      *)
(***************************************************************************)
FailedCreateRunCalls ==
    {i \in DOMAIN calls : CreateRun /\ ~calls[i].ok /\ i \notin RoleExistsCalls}

C15_AnyFailureIsFatal ==
    \A i \in FailedCreateRunCalls : i = Len(calls) /\ pc = "fatal"

(***************************************************************************)
(* C16. A create run issues no delete or detach call; at every moment the  *)
(* remote state holds exactly the resources whose create calls succeeded,  *)
(* and nothing that was created is taken away again, whatever step fails.  *)
(***************************************************************************)
\* the ids returned by the successful create calls of the trace
CreatedIds == {calls[i].arg : i \in {j \in CallsOf(ResourceCreateOps) : calls[j].ok}}

C16_NoCleanupInCreateRun ==
    /\ [](CreateRun => /\ CallsOf(MutatingOps) = {}
                       /\ DOMAIN resources = CreatedIds)
    /\ [][CreateRun => /\ DOMAIN resources \subseteq DOMAIN resources'
                       /\ DOMAIN remoteClusters \subseteq DOMAIN remoteClusters']_vars

\* the attachment of the gateway failed and the run stopped: the gateway,
\* the VPC and the subnets are still there
C16_Witness ==
    /\ pc = "fatal"
    /\ calls # <<>>
    /\ calls[Len(calls)].op = "AttachInternetGateway"
    /\ ~calls[Len(calls)].ok
    /\ DOMAIN resources = {"vpc-1", "subnet-1", "subnet-2", "igw-1"}
    /\ resources["igw-1"].attachedTo = ""

(***************************************************************************)
(* C17. Every resource created through a create call that accepts tags     *)
(* (the VPC, each subnet, the internet gateway, the route table, the       *)
(* security group, and the cluster of the current CreateEKSCluster) has    *)
(* the tag CreatedBy=EKS-Sandbox-Tool in every state in which it exists.   *)
(***************************************************************************)
HasProvenanceTag(tags) ==
    "CreatedBy" \in DOMAIN tags /\ tags["CreatedBy"] = "EKS-Sandbox-Tool"

C17_CreatedResourcesCarryProvenance ==
    /\ \A r \in DOMAIN resources : HasProvenanceTag(resources[r].tags)
    /\ (revision = "main.go" /\ ClusterCalls # {}) =>
          /\ HasProvenanceTag(clusterInput.Tags)
          /\ \A i \in ClusterCalls :
                calls[i].ok => HasProvenanceTag(remoteClusters[calls[i].arg])

\* the whole network and the cluster were created
C17_Witness ==
    /\ revision = "main.go"
    /\ pc = "done"
    /\ {resources[r].kind : r \in DOMAIN resources} = {"vpc", "subnet", "igw", "rtb", "sg"}
    /\ \E i \in ClusterCalls : calls[i].ok

TraceOf(op) ==
    LET F[i \in 0..Len(calls)] ==
            IF i = 0 THEN <<>>
            ELSE IF calls[i].op = op
                 THEN Append(F[i - 1], <<calls[i].arg, calls[i].obs>>)
                 ELSE F[i - 1]
    IN F[Len(calls)]

C19_CreateNewPathCalls ==
    (CreateRun /\ ~useExistingResources /\ ClusterCalls # {} /\ NoCallFailed) =>
        \E date \in Dates :
          /\ TraceOf("CreateVpc") = <<<<"vpc-1", <<"10.0.0.0/16", VpcName(date)>>>>>>
          /\ TraceOf("CreateSubnet") =
                <<<<"subnet-1", <<"vpc-1", "10.0.1.0/24", region \o "a">>>>,
                  <<"subnet-2", <<"vpc-1", "10.0.2.0/24", region \o "b">>>>>>
          /\ TraceOf("CreateInternetGateway") = <<<<"igw-1", <<"EKS-IGW">>>>>>
          /\ TraceOf("AttachInternetGateway") = <<<<"igw-1", <<"vpc-1">>>>>>
          /\ TraceOf("CreateRouteTable") = <<<<"rtb-1", <<"vpc-1">>>>>>
          /\ TraceOf("CreateRoute") = <<<<"rtb-1", <<"0.0.0.0/0", "igw-1">>>>>>
          /\ TraceOf("AssociateRouteTable") =
                <<<<"rtb-1", <<"subnet-1">>>>, <<"rtb-1", <<"subnet-2">>>>>>
          /\ TraceOf("CreateSecurityGroup") =
                <<<<"sg-1", <<"vpc-1", "EKS-SG", "EKS Security Group">>>>>>
          /\ Cardinality(ClusterCalls) = 1
          /\ \A i \in CallsOf(NetworkCreateOps) : \A c \in ClusterCalls : i < c
          /\ clusterInput.SubnetIds = <<"subnet-1", "subnet-2">>
          /\ clusterInput.SecurityGroupIds = <<"sg-1">>
          /\ resources["subnet-1"].az # resources["subnet-2"].az
          /\ resources["igw-1"].attachedTo = "vpc-1"
          /\ resources["rtb-1"].routes = {<<"0.0.0.0/0", "igw-1">>}
          /\ resources["rtb-1"].assocs = {"subnet-1", "subnet-2"}

\* a create-new run without a failure reached its end
C19_Witness ==
    /\ pc = "done"
    /\ CreateRun /\ ~useExistingResources /\ NoCallFailed
    /\ \E i \in ClusterCalls : calls[i].ok

(***************************************************************************)
(* C20. The calls of the creation pipeline are in dependency order: every  *)
(* id a call refers to was returned by an earlier successful create call   *)
(* of the same run (the VPC for subnets, gateway attachment, route table   *)
(* and security group; route table and gateway for the default route;      *)
(* route table and subnet for an association), and the cluster call comes  *)
(* after the identity lookup, the role step, and the creation of its       *)
(* subnets and security group.                                             *)
(***************************************************************************)
\* the ids of resources a network call refers to
Refs(c) ==
    CASE c.op \in {"CreateSubnet", "CreateRouteTable", "CreateSecurityGroup"} -> {c.obs[1]}
      [] c.op = "ModifySubnetAttribute" -> {c.arg}
      [] c.op = "AttachInternetGateway" -> {c.arg, c.obs[1]}
      [] c.op = "CreateRoute" -> {c.arg, c.obs[2]}
      [] c.op = "AssociateRouteTable" -> {c.arg, c.obs[1]}
      [] OTHER -> {}
\* the ids returned by successful create calls before position i
CreatedBefore(i) ==
    {calls[j].arg : j \in {k \in CallsOf(ResourceCreateOps) : k < i /\ calls[k].ok}}
RoleReadyBefore(i) ==
    /\ \E j \in CallsOf({"GetCallerIdentity"}) : j < i /\ calls[j].ok
    /\ \E j \in CallsOf({"CreateRole"}) : j < i /\ (calls[j].ok \/ j \in RoleExistsCalls)
    /\ \A p \in Range(Policies) :
          \E j \in CallsOf({"AttachRolePolicy"}) :
             j < i /\ calls[j].ok /\ calls[j].obs = <<p>>

C20_DependencyOrder ==
    /\ \A i \in CallsOf(NetworkCreateOps) : Refs(calls[i]) \subseteq CreatedBefore(i)
    /\ \A i \in ClusterCalls :
          /\ RoleReadyBefore(i)
          /\ ~useExistingResources =>
                Range(clusterInput.SubnetIds) \cup Range(clusterInput.SecurityGroupIds)
                    \subseteq CreatedBefore(i)
          /\ Len(clusterInput.SubnetIds) >= 2

\* the cluster call was issued after a full network creation
C20_Witness ==
    /\ ~useExistingResources
    /\ ClusterCalls # {}
    /\ CallsOf({"CreateRoute"}) # {}
    /\ Cardinality(CallsOf({"AssociateRouteTable"})) = 2

(***************************************************************************)
(* C22. CheckClusterTag(cluster, key, value), once its DescribeCluster     *)
(* call succeeded, returns true exactly when the tags of the cluster hold  *)
(* key with that value; an absent key, another value or a cluster without  *)
(* tags give false, and none of them is an error.                          *)
(***************************************************************************)
TagCheckSucceeded ==
    /\ pc \in {"CheckCreatedBy", "CheckHostingVPC"}
    /\ calls' # calls
    /\ calls'[Len(calls')].ok

C22_Step ==
    TagCheckSucceeded =>
       /\ pc' # "fatal"
       /\ err' = ""
       /\ pc = "CheckCreatedBy" => (isCreatedByTool' <=> HasProvenance)
       /\ pc = "CheckHostingVPC" => (isIsolatedVpc' <=> TaggedIsolated)

C22_CheckClusterTagExact == [][C22_Step]_vars

\* the check said false on a cluster that has the key with another value
C22_Witness ==
    /\ pc = "WarningPrompt"
    /\ ~isCreatedByTool
    /\ Selected
    /\ "CreatedBy" \in DOMAIN remoteClusters[selectedCluster]
    /\ remoteClusters[selectedCluster]["CreatedBy"] = "someone-else"
    /\ err = ""

(***************************************************************************)
(* C23. The Tag Guard never mutates state: the provenance check, the       *)
(* isolated-hosting check and the lookup of the VpcId tag each issue one   *)
(* DescribeCluster call and nothing else, and leave every remote cluster,  *)
(* every tag and every EC2 resource as they were.                          *)
(***************************************************************************)
TagGuardPositions == {"CheckCreatedBy", "CheckHostingVPC", "GetVPCIDFromCluster"}

C23_Step ==
    pc \in TagGuardPositions =>
       /\ remoteClusters' = remoteClusters
       /\ resources' = resources
       /\ subnetAz' = subnetAz
       /\ Len(calls') = Len(calls) + 1
       /\ SubSeq(calls', 1, Len(calls)) = calls
       /\ calls'[Len(calls')].op = "DescribeCluster"
       /\ calls'[Len(calls')].arg = selectedCluster

C23_TagGuardNeverMutates == [][C23_Step]_vars

\* the three checks of a teardown run have been evaluated
C23_Witness ==
    /\ pc = "AskVpcDelete"
    /\ isCreatedByTool
    /\ isIsolatedVpc
    /\ Cardinality(CallsOf({"DescribeCluster"})) = 3

(***************************************************************************)
(* C24. CreateAddon calls are issued only after the CreateCluster call of  *)
(* the run succeeded and only when the operator enabled the add-ons; they  *)
(* name the new cluster and come in the order coredns, kube-proxy,         *)
(* vpc-cni, each once; a failed CreateAddon call is the last call of the   *)
(* run; an enabled run in which nothing failed ends with all three.        *)
(***************************************************************************)
AddonCalls == CallsOf({"CreateAddon"})
IsAddonCall(c) == c.op = "CreateAddon"
AddonTrace == SelectSeq(calls, IsAddonCall)

C24_AddonsAfterClusterWhenEnabled ==
    /\ AddonCalls # {} =>
          /\ createAddons
          /\ \E c \in ClusterCalls :
                /\ calls[c].ok
                /\ \A a \in AddonCalls : c < a
    /\ Len(AddonTrace) <= 3
    /\ \A k \in DOMAIN AddonTrace :
          /\ AddonTrace[k].obs = <<(<<"coredns", "kube-proxy", "vpc-cni">>)[k]>>
          /\ AddonTrace[k].arg = clusterInput.Name
          /\ ~AddonTrace[k].ok => k = Len(AddonTrace)
    /\ \A a \in AddonCalls : ~calls[a].ok => a = Len(calls)
    /\ (pc = "done" /\ createAddons /\ NoCallFailed /\ ClusterCalls # {}) =>
          /\ Len(AddonTrace) = 3
          /\ \A k \in 1..3 : AddonTrace[k].ok

\* the three add-ons were installed on the new cluster
C24_Witness ==
    /\ pc = "done"
    /\ createAddons
    /\ NoCallFailed
    /\ Len(AddonTrace) = 3
    /\ AddonTrace[3].obs = <<"vpc-cni">>

(***************************************************************************)
(* C25. A run issues one CreateCluster call; its input enables managed     *)
(* compute, managed load balancing and managed block storage together      *)
(* when auto mode was requested and none of them when it was not; the only *)
(* calls after it install add-ons, so nothing enables them later.          *)
(***************************************************************************)
C25_AutoModeInOneCall ==
    ClusterCalls # {} =>
       /\ Cardinality(ClusterCalls) = 1
       /\ clusterInput.ComputeConfig = autoMode
       /\ clusterInput.ElasticLoadBalancing = autoMode
       /\ clusterInput.BlockStorage = autoMode
       /\ \A c \in ClusterCalls :
             \A i \in (c + 1)..Len(calls) : calls[i].op = "CreateAddon"

\* a cluster was created in auto mode with the three features enabled
C25_Witness ==
    /\ ClusterCalls # {}
    /\ NoCallFailed
    /\ autoMode
    /\ clusterInput.ComputeConfig
    /\ clusterInput.ElasticLoadBalancing
    /\ clusterInput.BlockStorage

(***************************************************************************)
(* C26. In every create run on a new network that reaches the cluster      *)
(* creation, an AuthorizeSecurityGroupIngress call for the security group  *)
(* the run created has been issued.                                        *)
(***************************************************************************)
IngressCalls == CallsOf({"AuthorizeSecurityGroupIngress"})

C26_CreatedGroupAllowsAllInbound ==
    (ClusterCalls # {} /\ ~useExistingResources) =>
       \E i \in IngressCalls :
          /\ calls[i].arg \in Range(securityGroupIDs)
          /\ \A c \in ClusterCalls : i < c

(***************************************************************************)
(* C28. The name sent in the CreateCluster call and in every CreateAddon   *)
(* call of a run is "Sandbox-" followed by what the operator typed; the    *)
(* input without the prefix is never sent.                                 *)
(***************************************************************************)
NamedCalls == CallsOf({"CreateCluster", "CreateAddon"})

C28_SandboxPrefix ==
    \A i \in NamedCalls :
       /\ calls[i].arg \notin NameInputs
       /\ \E input \in NameInputs : calls[i].arg = "Sandbox-" \o input
       /\ calls[i].arg = clusterName

\* the cluster and its add-ons were created under the prefixed name
C28_Witness ==
    /\ Cardinality(CallsOf({"CreateAddon"})) = 3
    /\ NoCallFailed
    /\ \A i \in NamedCalls : calls[i].arg = "Sandbox-demo"

(***************************************************************************)
(* C29. A run in which the operator pressed Enter alone at the auto mode   *)
(* prompt and at the add-on prompt behaves as enabled for both: the        *)
(* cluster is created with auto mode on and, when nothing fails, the three *)
(* add-ons are installed; Enter alone at the cascade prompt means yes.     *)
(***************************************************************************)
C29_DefaultsMeanEnabled ==
    /\ (entered["autoMode"] = "" /\ ClusterCalls # {}) =>
          /\ clusterInput.ComputeConfig
          /\ clusterInput.ElasticLoadBalancing
          /\ clusterInput.BlockStorage
    /\ entered["createAddons"] = "" => createAddons
    /\ (entered["createAddons"] = "" /\ pc = "done" /\ NoCallFailed) =>
          Len(AddonTrace) = 3
    /\ entered["confirmDeleteVPC"] = "" => confirmDeleteVPC

(***************************************************************************)
(* C21. For every non-empty list of version strings getLatestVersion       *)
(* returns an element of the list that no element exceeds in the           *)
(* lexicographic order of strings, which is the first element of the list  *)
(* sorted descending; over ["1.28", "1.9", "1.10"] it returns "1.9".       *)
(***************************************************************************)
\* a <= b in the lexicographic order of byte strings
RECURSIVE LexLeq(_, _)
LexLeq(a, b) ==
    IF a = <<>> THEN TRUE
    ELSE IF b = <<>> THEN FALSE
    ELSE IF Head(a) # Head(b) THEN Head(a) < Head(b)
    ELSE LexLeq(Tail(a), Tail(b))

IsDescending(seq) ==
    \A i \in 1..(Len(seq) - 1) : LexLeq(seq[i + 1], seq[i])

C21_Step ==
    pc = "getLatestVersion" =>
       /\ latestVersion' \in Range(versions)
       /\ \A v \in Range(versions) : LexLeq(v, latestVersion')
       /\ IsDescending(versions')
       /\ \A v \in VersionStrings :
             Cardinality({i \in DOMAIN versions' : versions'[i] = v})
                = Cardinality({i \in DOMAIN versions : versions[i] = v})
       /\ latestVersion' = versions'[1]
       /\ versions = <<V128, V19, V110>> => latestVersion' = V19

C21_LatestIsLexicographicMax == [][C21_Step]_vars

\* the function was applied to 1.28, 1.9, 1.10 and returned 1.9
C21_Witness ==
    /\ pc = "done"
    /\ versions = <<V19, V128, V110>>
    /\ latestVersion = V19

(***************************************************************************)
(* C27. Round trip: when a create run on a new network in which every call *)
(* succeeded is followed by a cascade teardown of its cluster in which     *)
(* every call succeeded, each resource the create run made (the VPC, the   *)
(* two subnets, the internet gateway, the route table, the security group) *)
(* was the argument of a successful delete call of its kind, the cluster   *)
(* was the argument of a successful DeleteCluster call, and the remote     *)
(* state holds none of these resources and nothing in that VPC any more.   *)
(***************************************************************************)
DeleteOpOf(kind) ==
    CASE kind = "vpc" -> "DeleteVpc"
      [] kind = "subnet" -> "DeleteSubnet"
      [] kind = "igw" -> "DeleteInternetGateway"
      [] kind = "rtb" -> "DeleteRouteTable"
      [] kind = "sg" -> "DeleteSecurityGroup"

DeletedBy(op, id) ==
    \E i \in DOMAIN calls : calls[i].op = op /\ calls[i].arg = id /\ calls[i].ok

\* the create runs that made the selected cluster
RunsOfSelected == {k \in DOMAIN runLog : runLog[k].cluster = selectedCluster}

CascadeTeardownDone ==
    /\ action = "Delete Cluster"
    /\ pc = "done"
    /\ NoCallFailed
    /\ CallsOf({"DeleteVpc"}) # {}

C27_RoundTrip ==
    \A k \in RunsOfSelected :
       (CascadeTeardownDone /\ ~runLog[k].reused /\ runLog[k].clean) =>
          /\ {runLog[k].made[r] : r \in DOMAIN runLog[k].made}
                = {"vpc", "subnet", "igw", "rtb", "sg"}
          /\ \A r \in DOMAIN runLog[k].made :
                /\ DeletedBy(DeleteOpOf(runLog[k].made[r]), r)
                /\ r \notin DOMAIN resources
          /\ DeletedBy("DeleteCluster", selectedCluster)
          /\ \A r \in DOMAIN resources :
                /\ resources[r].vpc # runLog[k].vpc
                /\ resources[r].attachedTo # runLog[k].vpc

\* a cluster made on a new network was torn down with its network
C27_Witness ==
    /\ CascadeTeardownDone
    /\ \E k \in RunsOfSelected :
          /\ ~runLog[k].reused
          /\ runLog[k].clean
          /\ Cardinality(DOMAIN runLog[k].made) = 6
          /\ DeletedBy("DeleteVpc", runLog[k].vpc)

(***************************************************************************)
(* C30. In any sequence of runs, a teardown issues DeleteVpc, and the      *)
(* calls that detach or delete what is in that VPC, only for the VPC that  *)
(* the create run of the cluster being torn down made, and only while no   *)
(* other cluster was put into that VPC: a VPC that some create run chose   *)
(* for reuse is never torn down through a cluster of the tool.             *)
(***************************************************************************)
\* the create run of the selected cluster made vpc, and no other run used it
OwnedBySelected(vpc) ==
    /\ \E k \in RunsOfSelected : runLog[k].vpc = vpc /\ ~runLog[k].reused
    /\ \A k \in DOMAIN runLog :
          runLog[k].vpc = vpc => runLog[k].cluster = selectedCluster /\ ~runLog[k].reused

C30_CascadeOnlyOnOwnVpc ==
    /\ \A i \in TeardownCalls({"DeleteVpc"}) : OwnedBySelected(calls[i].arg)
    /\ TeardownCalls(NetworkMutatingOps) # {} => OwnedBySelected(vpcId)

(***************************************************************************)
(* C32. In DeleteVPC every delete call for a network interface or an       *)
(* internet gateway comes directly after the successful detach call for    *)
(* the same resource (the interface detach is the forced one); a detach    *)
(* that failed is the last call of the run; a detach that succeeded is     *)
(* followed by the delete of the same resource before anything else; each  *)
(* resource is one of the enumerated ones and is detached at most once.    *)
(***************************************************************************)
DetachOps == {"DetachNetworkInterface", "DetachInternetGateway"}
DetachOf(op) ==
    IF op = "DeleteNetworkInterface" THEN "DetachNetworkInterface"
                                     ELSE "DetachInternetGateway"
DeleteAfter(op) ==
    IF op = "DetachNetworkInterface" THEN "DeleteNetworkInterface"
                                     ELSE "DeleteInternetGateway"
\* the resource the loop of the run is at
CurrentOf(op) ==
    IF op = "DetachNetworkInterface" THEN eniOutput[idx].NetworkInterfaceId
                                     ELSE igws[idx]
EnumeratedFor(op) ==
    IF op = "DetachNetworkInterface"
    THEN {eniOutput[k].NetworkInterfaceId : k \in DOMAIN eniOutput}
    ELSE Range(igws)

C32_DetachThenDelete ==
    /\ \A j \in TeardownCalls({"DeleteNetworkInterface", "DeleteInternetGateway"}) :
          /\ j > 1
          /\ calls[j - 1] = Call(DetachOf(calls[j].op), calls[j].arg, TRUE, <<>>)
    /\ \A i \in TeardownCalls(DetachOps) :
          /\ calls[i].arg \in EnumeratedFor(calls[i].op)
          /\ \A k \in TeardownCalls(DetachOps) :
                (calls[k].op = calls[i].op /\ calls[k].arg = calls[i].arg) => k = i
          /\ ~calls[i].ok => (i = Len(calls) /\ pc = "fatal")
          /\ calls[i].ok =>
                IF i = Len(calls)
                THEN /\ pc = DeleteAfter(calls[i].op)
                     /\ CurrentOf(calls[i].op) = calls[i].arg
                ELSE /\ calls[i + 1].op = DeleteAfter(calls[i].op)
                     /\ calls[i + 1].arg = calls[i].arg

\* two interfaces and a gateway were each detached and then deleted
C32_Witness ==
    /\ pc = "ListSubnets"
    /\ Len(eniOutput) = 2 /\ Len(igws) = 1
    /\ Cardinality(TeardownCalls(DetachOps)) = 3
    /\ Cardinality(TeardownCalls({"DeleteNetworkInterface", "DeleteInternetGateway"})) = 3

\* a failed gateway detach ended the run without the delete
C32_WitnessFailedDetach ==
    /\ pc = "fatal"
    /\ \E i \in TeardownCalls({"DetachInternetGateway"}) : ~calls[i].ok
    /\ TeardownCalls({"DeleteInternetGateway"}) = {}

(***************************************************************************)
(* C33. When a run of DeleteVPC has ended and none of its calls failed,    *)
(* every enumerated internet gateway, every enumerated subnet, every       *)
(* enumerated route table whose description shows no main association and  *)
(* every enumerated security group whose description does not name it      *)
(* "default" has exactly one delete call in the trace, and the delete-VPC  *)
(* call comes after it.  No tag of the resource is consulted.              *)
(***************************************************************************)
\* the successful per-resource describe calls for id
DescribedBy(op, id) ==
    {i \in TeardownCalls({op}) : calls[i].arg = id /\ calls[i].ok}
NotMain(id) ==
    \E i \in DescribedBy("DescribeRouteTables", id) :
       \A k \in DOMAIN calls[i].obs : ~HasMainAssociation(calls[i].obs[k])
NotDefault(id) ==
    \E i \in DescribedBy("DescribeSecurityGroups", id) :
       \A k \in DOMAIN calls[i].obs : calls[i].obs[k] # "default"
\* what the run has to delete, by delete operation
ToDelete(op) ==
    CASE op = "DeleteInternetGateway" -> Range(igws)
      [] op = "DeleteSubnet" -> Range(subnets)
      [] op = "DeleteRouteTable" -> {id \in Range(routeTables) : NotMain(id)}
      [] op = "DeleteSecurityGroup" -> {id \in Range(securityGroups) : NotDefault(id)}
ResourceDeleteOps ==
    {"DeleteInternetGateway", "DeleteSubnet", "DeleteRouteTable", "DeleteSecurityGroup"}
\* a run that entered DeleteVPC has ended and no call of it failed
DeleteVPCEndedWithoutFailure ==
    /\ action = "Delete Cluster"
    /\ pc \in {"done", "panic"}
    /\ TeardownCalls({"DescribeNetworkInterfaces"}) # {}
    /\ NoCallFailed

C33_EveryEnumeratedResourceDeletedOnce ==
    DeleteVPCEndedWithoutFailure =>
        \A op \in ResourceDeleteOps : \A id \in ToDelete(op) :
            /\ Cardinality({i \in TeardownCalls({op}) : calls[i].arg = id}) = 1
            /\ \E i \in TeardownCalls({op}) : \E v \in TeardownCalls({"DeleteVpc"}) :
                  calls[i].arg = id /\ i < v

(***************************************************************************)
(* C34. In a teardown run on a cluster tagged HostingVPC=isolated that has *)
(* no VpcId tag, the step that resolves the owning network always stops    *)
(* the run with "Error getting VpcId from cluster tags" (the tag was not   *)
(* found, or the describe call itself failed); the run never reaches the   *)
(* cascade prompt, and no delete or detach call, the cluster delete        *)
(* included, is ever in its trace.                                         *)
(***************************************************************************)
IsolatedWithoutVpcId ==
    /\ action = "Delete Cluster"
    /\ TaggedIsolated
    /\ "VpcId" \notin DOMAIN remoteClusters[selectedCluster]
PastResolve ==
    {"AskVpcDelete", "DeleteClusterCascade", "DeleteClusterOnly", "DeleteClusterLast"}
        \cup DeleteVPCPositions

C34_MissingVpcIdAborts ==
    /\ [](IsolatedWithoutVpcId =>
             /\ TeardownCalls(MutatingOps) = {}
             /\ pc \notin PastResolve)
    /\ [][(IsolatedWithoutVpcId /\ pc = "GetVPCIDFromCluster") =>
             /\ pc' = "fatal"
             /\ fatal' = "Error getting VpcId from cluster tags"
             /\ err' = IF calls'[Len(calls')].ok
                       THEN "vpc-id tag not found on cluster"
                       ELSE "failed to describe EKS cluster"]_vars

\* the run stopped because the isolated cluster has no VpcId tag
C34_Witness ==
    /\ IsolatedWithoutVpcId
    /\ pc = "fatal"
    /\ err = "vpc-id tag not found on cluster"
    /\ Len(calls) = 4
    /\ NoCallFailed

(***************************************************************************)
(* C35. DeleteVPC never stops in a crash: whatever the describe calls      *)
(* return, an interface without attachment record and a route table whose  *)
(* description has no entry included, the run is never in the state that   *)
(* follows a nil dereference or an index out of range.                     *)
(***************************************************************************)
C35_NoCrashInDeleteVPC == pc # "panic"

(***************************************************************************)
(* C36. In a create run the available-versions lookup comes before the     *)
(* identity lookup, the role calls and every create call.  A lookup that   *)
(* fails, returns an empty list or returns only entries without a version  *)
(* is the last call of the run, which stops with "Error fetching latest    *)
(* EKS version".  After a lookup that returned a version, latestVersion    *)
(* (the default of the version prompt) is one of the returned versions.    *)
(***************************************************************************)
VersionCalls == CallsOf({"DescribeClusterVersions"})
\* the versions a lookup returned (none when it failed)
VersionsReturned(i) == Range(ExtractVersions(calls[i].obs))
UsableLookup(i) == calls[i].ok /\ VersionsReturned(i) # {}
AfterVersionOps ==
    {"GetCallerIdentity", "CreateRole", "AttachRolePolicy", "CreateCluster",
     "CreateAddon"} \cup NetworkCreateOps

C36_VersionResolvedFirst ==
    CreateRun =>
      /\ Cardinality(VersionCalls) <= 1
      /\ \A i \in CallsOf(AfterVersionOps) :
            \E j \in VersionCalls : j < i /\ UsableLookup(j)
      /\ \A j \in VersionCalls :
            IF UsableLookup(j)
            THEN latestVersion \in VersionsReturned(j)
            ELSE /\ j = Len(calls)
                 /\ pc = "fatal"
                 /\ fatal = "Error fetching latest EKS version"
      /\ pc = "PromptK8sVersion" => \E j \in VersionCalls : UsableLookup(j)

\* the lookup returned an entry without version and two versions, and the
\* run went on to create resources
C36_Witness ==
    /\ CreateRun
    /\ \E j \in VersionCalls :
          /\ calls[j].obs = <<NilVersionInfo, VersionInfo(V110), VersionInfo(V128)>>
          /\ latestVersion = V128
    /\ \E i \in CallsOf({"CreateVpc"}) : calls[i].ok

\* the lookup returned only an entry without version and the run stopped
C36_WitnessNoVersion ==
    /\ CreateRun
    /\ pc = "fatal"
    /\ err = "no valid EKS versions found in the response"
    /\ \E j \in VersionCalls : calls[j].obs = <<NilVersionInfo>>

(***************************************************************************)
(* C37. Every teardown run ends, given that every prompt is answered and   *)
(* every gateway call returns.  In DeleteVPC no network-level call is      *)
(* issued twice for the same resource (each list is read once, each        *)
(* resource is described, detached and deleted at most once), so the trace *)
(* is bounded by the lengths of the enumerated lists.  DeleteVPC ends      *)
(* after a successful delete-VPC call, or at its first error (a failed     *)
(* call, a failed configuration load, or the runtime error of a crash)     *)
(* with every earlier call successful; the run ends there, except that the *)
(* earlier main issues its one cluster delete call after DeleteVPC         *)
(* returned without error.  An ended run takes no further step.            *)
(***************************************************************************)
Ended == {"done", "fatal", "panic"}
TeardownRun == action = "Delete Cluster"
\* the most calls a teardown run can issue on the lists it has enumerated:
\* five by main (the cluster list, three tag reads, the cluster delete), the five list calls, DescribeVpcs and DeleteVpc, two
\* calls per interface, gateway, route table and group, one per subnet
TeardownCallBound ==
    12 + 2 * Len(eniOutput) + 2 * Len(igws) + Len(subnets)
       + 2 * Len(routeTables) + 2 * Len(securityGroups)
\* main has called DeleteVPC: the cascade was accepted and, in the current
\* main, the cluster delete that precedes DeleteVPC returned without error
InDeleteVPC ==
    /\ TeardownRun /\ confirmDeleteVPC
    /\ revision = "main.go" => \E d \in TeardownCalls({"DeleteCluster"}) : calls[d].ok
\* the calls of DeleteVPC in the trace, and the last of them
DeleteVPCCalls == TeardownCalls(NetworkOps)
LastDeleteVPCCall == CHOOSE n \in DeleteVPCCalls : \A m \in DeleteVPCCalls : m <= n

C37_NoRepeatedCall ==
    /\ \A i, k \in TeardownCalls(NetworkOps \cup {"DeleteCluster"}) :
          (calls[i].op = calls[k].op /\ calls[i].arg = calls[k].arg) => i = k
    /\ TeardownRun => Len(calls) <= TeardownCallBound

C37_EndOfDeleteVPC ==
    (InDeleteVPC /\ pc \in Ended /\ DeleteVPCCalls # {}) =>
        LET last == LastDeleteVPCCall IN
        /\ \A i \in 1..(last - 1) : calls[i].ok
        /\ \/ calls[last] = Call("DeleteVpc", vpcId, TRUE, <<>>)
           \/ /\ ~calls[last].ok
              /\ last = Len(calls)
              /\ pc = "fatal" /\ fatal = "Error deleting VPC"
           \/ /\ calls[last].ok
              /\ last = Len(calls)
              /\ pc = "panic"
        /\ pc = "done" => calls[last].op = "DeleteVpc"
        \* after DeleteVPC returned: nothing in the current main, the one
        \* cluster delete in the earlier main
        /\ \A i \in (last + 1)..Len(calls) :
              /\ revision = "reuse" /\ i = last + 1
              /\ calls[i].op = "DeleteCluster" /\ calls[i].arg = selectedCluster
        /\ (revision = "reuse" /\ pc = "done") => Len(calls) = last + 1

C37_TeardownTerminates ==
    /\ [](C37_NoRepeatedCall /\ C37_EndOfDeleteVPC)
    /\ [][(pc \in Ended) => (vars' = vars)]_vars
    /\ (TeardownRun ~> pc \in Ended)

\* a teardown that went through all five loops and ended with DeleteVpc
C37_Witness ==
    /\ pc = "done"
    /\ InDeleteVPC
    /\ Len(eniOutput) = 2 /\ Len(igws) = 1 /\ Len(subnets) = 2
    /\ Len(routeTables) = 2 /\ Len(securityGroups) = 2
    /\ Len(calls) = TeardownCallBound

(***************************************************************************)
(* C31. Once DeleteVPC has gone through the interfaces it enumerated       *)
(* (step a), the VPC holds no network interface of the control plane of    *)
(* a cluster whose deletion is still in progress: while the run is at any  *)
(* later step of DeleteVPC, no such interface exists in the VPC.           *)
(***************************************************************************)
AfterStepA ==
    DeleteVPCPositions \ {"DeleteVPC", "DescribeNetworkInterfaces",
                          "DetachNetworkInterface", "DeleteNetworkInterface"}
\* the interfaces in vpc of clusters that are still being deleted
DeletingClusterInterfaces(vpc) ==
    {e \in controlPlane.enis : e.vpc = vpc /\ e.cluster \in controlPlane.deleting}

C31_ClusterHasLeftNetwork ==
    (action = "Delete Cluster" /\ pc \in AfterStepA) =>
        DeletingClusterInterfaces(vpcId) = {}

====
